---- MODULE Spec2Model ----
(***************************************************************************)
(* Model of the refresh-token service: the record model, the Storer        *)
(* contract with its in-memory (go-memdb) and PostgreSQL implementations,  *)
(* the JWT envelope, Dependencies.Validate / CreateJWT and the apiv1       *)
(* request handlers.                                                       *)
(***************************************************************************)
EXTENDS Integers, Sequences, FiniteSets, TLC

(***************************************************************************)
(* Bounds of the model.                                                    *)
(***************************************************************************)
\* largest number of records the store holds in the model
MaxTokens == 2
\* number of goroutines that call UseToken concurrently
NumCallers == 3
\* largest number of records of the profile that is paged through
MaxListed == 27

(***************************************************************************)
(* Program constants.                                                      *)
(***************************************************************************)
\* refreshLength = 14 days, in hours
refreshLength == 336
\* the hour subtracted from CreatedAt for the not-before claim
notBeforeSkew == 1
\* NumTokenResults, the number of records a listing returns at most
NumTokenResults == 25

(***************************************************************************)
(* Value domains.  Times are instants counted in hours.                    *)
(***************************************************************************)
IDs == {"a", "A", "b"}
ScopeLists == {<<"read", "NULL">>}
CreatedFroms == {"web"}
CreatedAts == {900}

\* strings.ToLower, as applied by memdb.StringFieldIndex{Lowercase: true}
Lower(s) ==
  CASE s = "A" -> "a"
    [] s = "P1" -> "p1"
    [] OTHER -> s

\* the sentinel errors; "nil" is success, "error" any other (unnamed) error
ErrTokenNotFound == "ErrTokenNotFound"
ErrInvalidToken == "ErrInvalidToken"
ErrTokenAlreadyExists == "ErrTokenAlreadyExists"
ErrTokenRevoked == "ErrTokenRevoked"
ErrTokenUsed == "ErrTokenUsed"
ErrNoTokenChangeFilter == "ErrNoTokenChangeFilter"

(***************************************************************************)
(* Record model.                                                           *)
(***************************************************************************)
\* RefreshToken{}, the zero value returned next to an error
ZeroToken ==
  [ID |-> "", CreatedAt |-> 0, CreatedFrom |-> "", Scopes |-> <<>>,
   ProfileID |-> "", ClientID |-> "", AccountID |-> "",
   Revoked |-> FALSE, Used |-> FALSE]

\* a *bool: <<>> is nil, <<v>> points to v
BoolPtrs == {<<>>, <<TRUE>>, <<FALSE>>}

\* type RefreshTokenChange, with the filter values the model tries
RefreshTokenChange ==
  [ID : {"", "a", "A"}, ProfileID : {"", "p1"}, ClientID : {"", "c1"},
   AccountID : {"", "a1"}, Revoked : BoolPtrs, Used : BoolPtrs]

\* RefreshTokenChange{}, the zero value
ZeroChange ==
  [ID |-> "", ProfileID |-> "", ClientID |-> "", AccountID |-> "",
   Revoked |-> <<>>, Used |-> <<>>]

\* RefreshTokenChange.IsEmpty
IsEmpty(r) == r.Revoked = <<>> /\ r.Used = <<>>

\* RefreshTokenChange.HasFilter
HasFilter(r) ==
  r.ID # "" \/ r.ProfileID # "" \/ r.ClientID # "" \/ r.AccountID # ""

\* mutant of ApplyChange: a flag the change does not carry is reset
ApplyChangeResets(t, change) ==
  [t EXCEPT !.Revoked = IF change.Revoked # <<>> THEN change.Revoked[1] ELSE FALSE,
            !.Used = IF change.Used # <<>> THEN change.Used[1] ELSE FALSE]

\* mutant of ApplyChange: a flag that is set stays set
ApplyChangeSticky(t, change) ==
  [t EXCEPT !.Revoked = IF change.Revoked # <<>> THEN (@ \/ change.Revoked[1]) ELSE @,
            !.Used = IF change.Used # <<>> THEN (@ \/ change.Used[1]) ELSE @]

\* ApplyChange
ApplyChange(t, change) ==
  [t EXCEPT !.Revoked = IF change.Revoked # <<>> THEN change.Revoked[1] ELSE @,
            !.Used = IF change.Used # <<>> THEN change.Used[1] ELSE @]

(***************************************************************************)
(* pqarrays.StringArray and the Postgres array column.  An array literal   *)
(* is a sequence of items, each quoted or bare; a stored array element is  *)
(* a string or NULL.                                                       *)
(***************************************************************************)
\* mutant of StringArrayValue: the items are written without strconv.Quote
StringArrayValueBare(s) ==
  [i \in 1..Len(s) |-> [quoted |-> FALSE, text |-> s[i]]]

\* StringArray.Value: every item goes through strconv.Quote
StringArrayValue(s) ==
  [i \in 1..Len(s) |-> [quoted |-> TRUE, text |-> s[i]]]

\* array_in of Postgres: a bare NULL item is the null element
PgArrayIn(lit) ==
  [i \in 1..Len(lit) |->
     [null |-> (~lit[i].quoted /\ lit[i].text = "NULL"), text |-> lit[i].text]]

\* array_out of Postgres: quotes the items that need it
PgArrayOut(arr) ==
  [i \in 1..Len(arr) |->
     IF arr[i].null THEN [quoted |-> FALSE, text |-> "NULL"]
     ELSE [quoted |-> (arr[i].text = "" \/ arr[i].text = "NULL"),
           text |-> arr[i].text]]

\* lexString / lexQuotedString: a bare NULL lexes as tokenNull
IsNullItem(item) == ~item.quoted /\ item.text = "NULL"

RECURSIVE ScanItems(_)
\* StringArray.Scan: appends every parsed item that is not nil
ScanItems(lit) ==
  IF lit = <<>> THEN <<>>
  ELSE IF IsNullItem(Head(lit)) THEN ScanItems(Tail(lit))
  ELSE <<Head(lit).text>> \o ScanItems(Tail(lit))

StringArrayScan(lit) == ScanItems(lit)

\* mutant of toPostgres: the flags are left to the columns' defaults
toPostgresDefaultFlags(token) ==
  [token EXCEPT !.Scopes = PgArrayIn(StringArrayValue(token.Scopes)),
                !.Revoked = FALSE, !.Used = FALSE]

\* toPostgres followed by the INSERT of the row
toPostgres(token) ==
  [token EXCEPT !.Scopes = PgArrayIn(StringArrayValue(token.Scopes))]

\* the SELECT of a row, pan.Unmarshal and fromPostgres
fromPostgres(row) ==
  [ID |-> row.ID, CreatedAt |-> row.CreatedAt, CreatedFrom |-> row.CreatedFrom,
   Scopes |-> StringArrayScan(PgArrayOut(row.Scopes)),
   ProfileID |-> row.ProfileID, ClientID |-> row.ClientID,
   AccountID |-> row.AccountID, Revoked |-> row.Revoked, Used |-> row.Used]

(***************************************************************************)
(* Memory backend (storers/memory): a go-memdb table "token" with a unique *)
(* index on ID and non-unique indexes on ProfileID, ClientID, AccountID,   *)
(* every index with Lowercase: true.  A table is the set of its objects.   *)
(***************************************************************************)
\* the fields of the schema's indexes
IndexedFields == {"ID", "ProfileID", "ClientID", "AccountID"}

\* txn.Get / txn.First on an index: the argument and the field are lowercased
MemGet(table, field, value) ==
  {r \in table : Lower(r[field]) = Lower(value)}

\* txn.Insert can index the object only if no indexed field is empty
MemCanInsert(obj) == \A f \in IndexedFields : obj[f] # ""

\* txn.Insert: replaces the object that has the same key in the unique index
MemInsert(table, obj) ==
  {r \in table : Lower(r.ID) # Lower(obj.ID)} \cup {obj}

\* mutant of MemoryGetToken: the nil test of the lookup's result is missing
MemoryGetTokenNoNilTest(table, id) ==
  LET found == MemGet(table, "ID", id) IN
  [err |-> "nil", tok |-> IF found = {} THEN ZeroToken ELSE CHOOSE r \in found : TRUE]

\* memory.Storer.GetToken
MemoryGetToken(table, id) ==
  LET found == MemGet(table, "ID", id) IN
  IF found = {} THEN [err |-> ErrTokenNotFound, tok |-> ZeroToken]
  ELSE [err |-> "nil", tok |-> CHOOSE r \in found : TRUE]

\* mutant of MemoryCreateToken: no test for an existing object, Insert replaces it
MemoryCreateTokenUpsert(table, token) ==
  IF ~MemCanInsert(token) THEN [err |-> "error", db |-> table]
  ELSE [err |-> "nil", db |-> MemInsert(table, token)]

\* memory.Storer.CreateToken
MemoryCreateToken(table, token) ==
  IF MemGet(table, "ID", token.ID) # {}
  THEN [err |-> ErrTokenAlreadyExists, db |-> table]
  ELSE IF ~MemCanInsert(token) THEN [err |-> "error", db |-> table]
  ELSE [err |-> "nil", db |-> MemInsert(table, token)]

\* the index scan UpdateTokens starts from
MemUpdateIter(table, change) ==
  IF change.ID # "" /\ change.ProfileID = "" /\ change.ClientID = "" /\ change.AccountID = ""
  THEN MemGet(table, "ID", change.ID)
  ELSE IF change.ProfileID # "" /\ change.ClientID = "" /\ change.ID = "" /\ change.AccountID = ""
  THEN MemGet(table, "ProfileID", change.ProfileID)
  ELSE IF change.ClientID # "" /\ change.ProfileID = "" /\ change.ID = "" /\ change.AccountID = ""
  THEN MemGet(table, "ClientID", change.ClientID)
  ELSE IF change.AccountID # "" /\ change.ProfileID = "" /\ change.ID = "" /\ change.ClientID = ""
  THEN MemGet(table, "AccountID", change.AccountID)
  ELSE table

\* mutant of MemUpdateKeeps: the ClientID test is missing
MemUpdateKeepsNoClient(tok, change) ==
  /\ ~(change.ID # "" /\ tok.ID # change.ID)
  /\ ~(change.ProfileID # "" /\ tok.ProfileID # change.ProfileID)
  /\ ~(change.AccountID # "" /\ tok.AccountID # change.AccountID)

\* the four `continue` tests of the UpdateTokens loop
MemUpdateKeeps(tok, change) ==
  /\ ~(change.ID # "" /\ tok.ID # change.ID)
  /\ ~(change.ProfileID # "" /\ tok.ProfileID # change.ProfileID)
  /\ ~(change.ClientID # "" /\ tok.ClientID # change.ClientID)
  /\ ~(change.AccountID # "" /\ tok.AccountID # change.AccountID)

\* mutant of MemInsertAll: only the updated objects are kept
MemInsertAllOnly(table, objs) == objs

RECURSIVE MemInsertAll(_, _)
\* the loop of UpdateTokens over the iterator's snapshot, one Insert per object
MemInsertAll(table, objs) ==
  IF objs = {} THEN table
  ELSE LET o == CHOOSE x \in objs : TRUE IN
       MemInsertAll(MemInsert(table, o), objs \ {o})

\* mutant of MemoryUpdateTokens: the HasFilter test is missing
MemoryUpdateTokensNoFilterTest(table, change) ==
  IF IsEmpty(change) THEN [err |-> "nil", db |-> table]
  ELSE [err |-> "nil",
        db |-> MemInsertAll(table,
                 {ApplyChange(tok, change) :
                    tok \in {t \in MemUpdateIter(table, change) :
                               MemUpdateKeeps(t, change)}})]

\* memory.Storer.UpdateTokens
MemoryUpdateTokens(table, change) ==
  IF IsEmpty(change) THEN [err |-> "nil", db |-> table]
  ELSE IF ~HasFilter(change) THEN [err |-> ErrNoTokenChangeFilter, db |-> table]
  ELSE LET updated == {ApplyChange(tok, change) :
                         tok \in {t \in MemUpdateIter(table, change) :
                                    MemUpdateKeeps(t, change)}} IN
       IF \E u \in updated : ~MemCanInsert(u)
       THEN [err |-> "error", db |-> table]
       ELSE [err |-> "nil", db |-> MemInsertAll(table, updated)]

\* mutant of MemoryUseToken: the test of found.Used is missing
MemoryUseTokenNoUsedTest(table, id) ==
  LET found == MemGet(table, "ID", id) IN
  IF found = {} THEN [err |-> ErrTokenNotFound, db |-> table]
  ELSE [err |-> "nil",
        db |-> MemInsert(table, ApplyChange(CHOOSE r \in found : TRUE,
                                            [ZeroChange EXCEPT !.Used = <<TRUE>>]))]

\* memory.Storer.UseToken, the whole write transaction
MemoryUseToken(table, id) ==
  LET found == MemGet(table, "ID", id) IN
  IF found = {} THEN [err |-> ErrTokenNotFound, db |-> table]
  ELSE LET tok == CHOOSE r \in found : TRUE IN
       IF tok.Used THEN [err |-> ErrTokenUsed, db |-> table]
       ELSE [err |-> "nil",
             db |-> MemInsert(table, ApplyChange(tok, [ZeroChange EXCEPT !.Used = <<TRUE>>]))]

(***************************************************************************)
(* Relational backend (storers/postgres): table tokens, primary key id.    *)
(* A table is the set of its rows.                                         *)
(***************************************************************************)
\* postgres.Storer.GetToken: SELECT ... WHERE id = ?
PostgresGetToken(table, id) ==
  LET rows == {r \in table : r.ID = id} IN
  IF rows = {} THEN [err |-> ErrTokenNotFound, tok |-> ZeroToken]
  ELSE [err |-> "nil", tok |-> fromPostgres(CHOOSE r \in rows : TRUE)]

\* postgres.Storer.CreateToken: INSERT, tokens_pkey violation mapped
PostgresCreateToken(table, token) ==
  IF \E r \in table : r.ID = token.ID
  THEN [err |-> ErrTokenAlreadyExists, db |-> table]
  ELSE [err |-> "nil", db |-> table \cup {toPostgres(token)}]

\* the WHERE clause of updateTokensSQL
PgUpdateWhere(row, change) ==
  /\ (change.ID # "" => row.ID = change.ID)
  /\ (change.ClientID # "" => row.ClientID = change.ClientID)
  /\ (change.ProfileID # "" => row.ProfileID = change.ProfileID)
  /\ (change.AccountID # "" => row.AccountID = change.AccountID)

\* mutant of PgUpdateSet: the SET list carries the revoked column only
PgUpdateSetRevoked(row, change) ==
  [row EXCEPT !.Revoked = IF change.Revoked # <<>> THEN change.Revoked[1] ELSE @]

\* the SET list of updateTokensSQL
PgUpdateSet(row, change) ==
  [row EXCEPT !.Revoked = IF change.Revoked # <<>> THEN change.Revoked[1] ELSE @,
              !.Used = IF change.Used # <<>> THEN change.Used[1] ELSE @]

\* mutant of PostgresUpdateTokens: HasFilter is tested before IsEmpty
PostgresUpdateTokensFilterFirst(table, change) ==
  IF ~HasFilter(change) THEN [err |-> ErrNoTokenChangeFilter, db |-> table]
  ELSE IF IsEmpty(change) THEN [err |-> "nil", db |-> table]
  ELSE [err |-> "nil",
        db |-> {IF PgUpdateWhere(r, change) THEN PgUpdateSet(r, change) ELSE r :
                  r \in table}]

\* postgres.Storer.UpdateTokens
PostgresUpdateTokens(table, change) ==
  IF IsEmpty(change) THEN [err |-> "nil", db |-> table]
  ELSE IF ~HasFilter(change) THEN [err |-> ErrNoTokenChangeFilter, db |-> table]
  ELSE [err |-> "nil",
        db |-> {IF PgUpdateWhere(r, change) THEN PgUpdateSet(r, change) ELSE r :
                  r \in table}]

\* mutant of PgUseWhere: the UPDATE without its `used = false` condition
PgUseWhereAnyState(row, id) == row.ID = id

\* mutant of PgUseWhere: the UPDATE also requires `revoked = false`
PgUseWhereUnrevoked(row, id) == row.ID = id /\ row.Used = FALSE /\ row.Revoked = FALSE

\* useTokenSQL: the rows of UPDATE ... SET used = true WHERE id = ? AND used = false
PgUseWhere(row, id) == row.ID = id /\ row.Used = FALSE

\* mutant of PgUseUpdate: the UPDATE's WHERE clause lacks the id comparison
PgUseUpdateAnyID(table, id) ==
  {IF ~r.Used THEN [r EXCEPT !.Used = TRUE] ELSE r : r \in table}

\* the table after the conditional UPDATE
PgUseUpdate(table, id) ==
  {IF PgUseWhere(r, id) THEN [r EXCEPT !.Used = TRUE] ELSE r : r \in table}

\* mutant of PgUseAffected: every row with the ID counts as affected
PgUseAffectedAnyState(table, id) == Cardinality({r \in table : r.ID = id})

\* RowsAffected of the conditional UPDATE
PgUseAffected(table, id) == Cardinality({r \in table : PgUseWhere(r, id)})

\* useTokenExistsSQL: SELECT COUNT(*) ... WHERE id = ? AND used = true
PgUseExists(table, id) == Cardinality({r \in table : r.ID = id /\ r.Used = TRUE})

\* the classification after the probe
PgUseProbe(table, id) ==
  IF PgUseExists(table, id) >= 1 THEN ErrTokenUsed ELSE ErrTokenNotFound

\* postgres.Storer.UseToken, run without interleaving
PostgresUseToken(table, id) ==
  IF PgUseAffected(table, id) >= 1
  THEN [err |-> "nil", db |-> PgUseUpdate(table, id)]
  ELSE [err |-> PgUseProbe(PgUseUpdate(table, id), id), db |-> PgUseUpdate(table, id)]

(***************************************************************************)
(* Listing (GetTokensByProfileID).  The order sort.Slice and ORDER BY give *)
(* to records of equal CreatedAt is unspecified, so a listing is any of    *)
(* the sequences a sort by CreatedAt descending can produce.               *)
(***************************************************************************)
\* mutant of ListKeeps: the bounds admit a CreatedAt equal to them
ListKeepsInclusive(r, since, before) ==
  /\ ~(before # 0 /\ ~(r.CreatedAt <= before))
  /\ ~(since # 0 /\ ~(r.CreatedAt >= since))

\* the two continue tests of the listing loop / the two comparisons of the
\* query: a zero bound is not applied
ListKeeps(r, since, before) ==
  /\ ~(before # 0 /\ ~(r.CreatedAt < before))
  /\ ~(since # 0 /\ ~(r.CreatedAt > since))

\* the records a sorted sequence may start with: those of the latest CreatedAt
Latest(S) == {r \in S : \A o \in S : o.CreatedAt <= r.CreatedAt}

RECURSIVE SortDesc(_)
\* sort.Slice with less = CreatedAt.After / ORDER BY created_at DESC: every
\* sequence of the records of S in which CreatedAt never increases
SortDesc(S) ==
  IF S = {} THEN {<<>>}
  ELSE UNION {{<<r>> \o rest : rest \in SortDesc(S \ {r})} : r \in Latest(S)}

\* mutant of Truncate: the listing is not cut
TruncateNever(toks) == toks

\* toks[:NumTokenResults] when longer / LIMIT NumTokenResults
Truncate(toks) ==
  IF Len(toks) > NumTokenResults THEN SubSeq(toks, 1, NumTokenResults) ELSE toks

\* memory.Storer.GetTokensByProfileID: the listings it may return
MemoryGetTokensByProfileID(table, profileID, since, before) ==
  LET toks == {r \in MemGet(table, "ProfileID", profileID) : ListKeeps(r, since, before)} IN
  {Truncate(sorted) : sorted \in SortDesc(toks)}

\* postgres.Storer.GetTokensByProfileID: the listings it may return
PostgresGetTokensByProfileID(table, profileID, since, before) ==
  LET rows == {r \in table : r.ProfileID = profileID /\ ListKeeps(r, since, before)} IN
  {[i \in 1..Len(page) |-> fromPostgres(page[i])] :
     page \in {Truncate(sorted) : sorted \in SortDesc(rows)}}

(***************************************************************************)
(* The Storer interface, dispatched on the configured backend.             *)
(***************************************************************************)
Backends == {"memory", "postgres"}

GetToken(b, table, id) ==
  IF b = "memory" THEN MemoryGetToken(table, id) ELSE PostgresGetToken(table, id)

CreateToken(b, table, token) ==
  IF b = "memory" THEN MemoryCreateToken(table, token)
  ELSE PostgresCreateToken(table, token)

UpdateTokens(b, table, change) ==
  IF b = "memory" THEN MemoryUpdateTokens(table, change)
  ELSE PostgresUpdateTokens(table, change)

UseToken(b, table, id) ==
  IF b = "memory" THEN MemoryUseToken(table, id) ELSE PostgresUseToken(table, id)

GetTokensByProfileID(b, table, profileID, since, before) ==
  IF b = "memory" THEN MemoryGetTokensByProfileID(table, profileID, since, before)
  ELSE PostgresGetTokensByProfileID(table, profileID, since, before)

\* the records of a table as GetToken returns them
Stored(b, table) ==
  IF b = "memory" THEN table ELSE {fromPostgres(r) : r \in table}

(***************************************************************************)
(* Token envelope (github.com/dgrijalva/jwt-go v3.2.0) and the kernel.     *)
(* A JWT is its header (alg, kid), its claims and the key that signed it.  *)
(***************************************************************************)
\* the algorithms whose method is a *jwt.SigningMethodRSA
RSAMethods == {"RS256"}

\* ssh.FingerprintSHA256 of the public key
Fingerprint(pk) == IF pk = "K1" THEN "SHA256:K1" ELSE "SHA256:K2"

\* tokens.Dependencies as tokensd configures it; StorerDown tells whether the
\* Storer's queries fail (the database connection is lost)
Dependencies(b) ==
  [Storer |-> b, JWTPrivateKey |-> "K1", JWTPublicKey |-> "K1",
   ServiceID |-> "tokensd", StorerDown |-> FALSE]

\* d.Storer.GetToken: a failed query is returned as the driver's error
StorerGetToken(d, table, id) ==
  IF d.StorerDown THEN [err |-> "error", tok |-> ZeroToken]
  ELSE GetToken(d.Storer, table, id)

\* Dependencies.GetPublicKeyFingerprint of a valid Dependencies (every
\* property set, the mutex included): the receiver is a copy, so the cached
\* fingerprint is never kept and it is computed from pk on every call
GetPublicKeyFingerprint(d, pk) == Fingerprint(pk)

\* mutant of CreateJWT: not-before is CreatedAt itself
CreateJWTNoSkew(d, token) ==
  [alg |-> "RS256",
   kid |-> GetPublicKeyFingerprint(d, d.JWTPublicKey),
   claims |-> [Audience |-> token.ClientID,
               ExpiresAt |-> token.CreatedAt + refreshLength,
               Id |-> token.ID,
               IssuedAt |-> token.CreatedAt,
               Issuer |-> d.ServiceID,
               NotBefore |-> token.CreatedAt,
               Subject |-> token.ProfileID],
   signedBy |-> d.JWTPrivateKey]

\* Dependencies.CreateJWT
CreateJWT(d, token) ==
  [alg |-> "RS256",
   kid |-> GetPublicKeyFingerprint(d, d.JWTPublicKey),
   claims |-> [Audience |-> token.ClientID,
               ExpiresAt |-> token.CreatedAt + refreshLength,
               Id |-> token.ID,
               IssuedAt |-> token.CreatedAt,
               Issuer |-> d.ServiceID,
               NotBefore |-> token.CreatedAt - notBeforeSkew,
               Subject |-> token.ProfileID],
   signedBy |-> d.JWTPrivateKey]

\* the Keyfunc Validate passes to jwt.Parse: TRUE when it returns the key
ValidateKeyfunc(d, jwtVal) ==
  /\ jwtVal.alg \in RSAMethods
  /\ GetPublicKeyFingerprint(d, d.JWTPublicKey) = jwtVal.kid

\* MapClaims.Valid at instant now: exp, iat and nbf, each skipped when 0
ClaimsValid(claims, now) ==
  /\ (claims.ExpiresAt # 0 => now <= claims.ExpiresAt)
  /\ (claims.IssuedAt # 0 => now >= claims.IssuedAt)
  /\ (claims.NotBefore # 0 => now >= claims.NotBefore)

\* SigningMethodRSA.Verify with the key the Keyfunc returned
SignatureValid(d, jwtVal) ==
  jwtVal.alg \in RSAMethods /\ jwtVal.signedBy = d.JWTPublicKey

\* the dynamic type of Token.Claims after jwt.Parse, which parses into
\* MapClaims{}
ParsedClaimsType == "MapClaims"

\* jwt.Parse: err is TRUE when the library returns an error
JwtParse(d, jwtVal, now) ==
  [err |-> ~(ValidateKeyfunc(d, jwtVal) /\ ClaimsValid(jwtVal.claims, now)
             /\ SignatureValid(d, jwtVal)),
   claimsType |-> ParsedClaimsType,
   claims |-> jwtVal.claims]

\* what Validate returns: the error, the record, the table it leaves and
\* whether it asked the Storer for a record
ValidateResult(err, tok, table, looked) ==
  [err |-> err, tok |-> tok, db |-> table, looked |-> looked]

\* the rest of Validate once the token has parsed, on the table `table`
ValidateParsed(d, table, tok, looked) ==
  IF tok.claimsType # "StandardClaims"
  THEN ValidateResult(ErrInvalidToken, ZeroToken, table, looked)
  ELSE LET got == StorerGetToken(d, table, tok.claims.Id) IN
       IF got.err = ErrTokenNotFound
       THEN ValidateResult(ErrInvalidToken, ZeroToken, table, TRUE)
       ELSE IF got.err # "nil" THEN ValidateResult(got.err, ZeroToken, table, TRUE)
       ELSE IF got.tok.Revoked THEN ValidateResult(ErrTokenRevoked, ZeroToken, table, TRUE)
       ELSE IF got.tok.Used THEN ValidateResult(ErrTokenUsed, ZeroToken, table, TRUE)
       ELSE ValidateResult("nil", got.tok, table, TRUE)

\* mutant of Validate: the library's error is returned as it is
ValidateReturnsParseError(d, table, jwtVal, now) ==
  LET tok == JwtParse(d, jwtVal, now) IN
  IF tok.err THEN ValidateResult("error", ZeroToken, table, FALSE)
  ELSE ValidateParsed(d, table, tok, FALSE)

\* mutant of Validate: the presented token is marked used once it has parsed
ValidateConsumes(d, table, jwtVal, now) ==
  LET tok == JwtParse(d, jwtVal, now) IN
  IF tok.err THEN ValidateResult(ErrInvalidToken, ZeroToken, table, FALSE)
  ELSE ValidateParsed(d, UseToken(d.Storer, table, tok.claims.Id).db, tok, TRUE)

\* Dependencies.Validate
Validate(d, table, jwtVal, now) ==
  LET tok == JwtParse(d, jwtVal, now) IN
  IF tok.err THEN ValidateResult(ErrInvalidToken, ZeroToken, table, FALSE)
  ELSE ValidateParsed(d, table, tok, FALSE)

\* the zero JWT, for operations that present none
ZeroJWT ==
  [alg |-> "", kid |-> "",
   claims |-> [Audience |-> "", ExpiresAt |-> 0, Id |-> "", IssuedAt |-> 0,
               Issuer |-> "", NotBefore |-> 0, Subject |-> ""],
   signedBy |-> ""]

(***************************************************************************)
(* apiv1: the wire types and the four request handlers.  A handler yields  *)
(* the response status, the error it saw, the record of the response and   *)
(* the table it leaves.                                                    *)
(***************************************************************************)
\* coreToken: the wire type carries no AccountID
coreToken(body) ==
  [ID |-> body.ID, CreatedAt |-> body.CreatedAt, CreatedFrom |-> body.CreatedFrom,
   Scopes |-> body.Scopes, ProfileID |-> body.ProfileID, ClientID |-> body.ClientID,
   AccountID |-> "", Revoked |-> body.Revoked, Used |-> body.Used]

\* apiToken
apiToken(token) == [token EXCEPT !.AccountID = ""]

\* coreChange: the wire type carries no AccountID
coreChange(body) ==
  [ID |-> body.ID, ProfileID |-> body.ProfileID, ClientID |-> body.ClientID,
   AccountID |-> "", Revoked |-> body.Revoked, Used |-> body.Used]

\* FillTokenDefaults, with the UUID and the instant it would draw
FillTokenDefaults(token, uuid, now) ==
  [token EXCEPT !.ID = IF @ = "" THEN uuid ELSE @,
                !.CreatedAt = IF @ = 0 THEN now ELSE @]

\* APIv1.handleInsertToken
handleInsertToken(d, table, body, uuid, now) ==
  LET token == FillTokenDefaults(coreToken(body), uuid, now) IN
  IF token.CreatedFrom = "" \/ token.ProfileID = "" \/ token.ClientID = ""
  THEN [status |-> 400, err |-> "missing", tok |-> ZeroToken, db |-> table]
  ELSE LET res == CreateToken(d.Storer, table, token) IN
       IF res.err = ErrTokenAlreadyExists
       THEN [status |-> 400, err |-> res.err, tok |-> ZeroToken, db |-> res.db]
       ELSE IF res.err # "nil"
       THEN [status |-> 500, err |-> res.err, tok |-> ZeroToken, db |-> res.db]
       ELSE [status |-> 201, err |-> "nil", tok |-> apiToken(token), db |-> res.db]

\* APIv1.handleGetToken
handleGetToken(d, table, id) ==
  IF id = "" THEN [status |-> 404, err |-> "missing", tok |-> ZeroToken, db |-> table]
  ELSE LET got == StorerGetToken(d, table, id) IN
       IF got.err = ErrTokenNotFound
       THEN [status |-> 404, err |-> got.err, tok |-> ZeroToken, db |-> table]
       ELSE IF got.err # "nil"
       THEN [status |-> 500, err |-> got.err, tok |-> ZeroToken, db |-> table]
       ELSE [status |-> 200, err |-> "nil", tok |-> apiToken(got.tok), db |-> table]

\* mutant of handlePatchToken: the body's ID is not replaced by {id}
handlePatchTokenBodyID(d, table, id, body) ==
  IF id = "" THEN [status |-> 404, err |-> "missing", tok |-> ZeroToken, db |-> table]
  ELSE LET got == StorerGetToken(d, table, id) IN
       IF got.err = ErrTokenNotFound
       THEN [status |-> 404, err |-> got.err, tok |-> ZeroToken, db |-> table]
       ELSE IF got.err # "nil"
       THEN [status |-> 500, err |-> got.err, tok |-> ZeroToken, db |-> table]
       ELSE LET change == coreChange(body)
                res == UpdateTokens(d.Storer, table, change) IN
            IF res.err # "nil"
            THEN [status |-> 500, err |-> res.err, tok |-> ZeroToken, db |-> res.db]
            ELSE [status |-> 200, err |-> "nil",
                  tok |-> apiToken(ApplyChange(got.tok, change)), db |-> res.db]

\* APIv1.handlePatchToken
handlePatchToken(d, table, id, body) ==
  IF id = "" THEN [status |-> 404, err |-> "missing", tok |-> ZeroToken, db |-> table]
  ELSE LET got == StorerGetToken(d, table, id) IN
       IF got.err = ErrTokenNotFound
       THEN [status |-> 404, err |-> got.err, tok |-> ZeroToken, db |-> table]
       ELSE IF got.err # "nil"
       THEN [status |-> 500, err |-> got.err, tok |-> ZeroToken, db |-> table]
       ELSE LET change == coreChange([body EXCEPT !.ID = id])
                res == UpdateTokens(d.Storer, table, change) IN
            IF res.err # "nil"
            THEN [status |-> 500, err |-> res.err, tok |-> ZeroToken, db |-> res.db]
            ELSE [status |-> 200, err |-> "nil",
                  tok |-> apiToken(ApplyChange(got.tok, change)), db |-> res.db]

\* the body of a response: the record, or the error's slug with the field
\* or the parameter it is about
Answer(status, err, slug, field, param, tok, table) ==
  [status |-> status, err |-> err, slug |-> slug, field |-> field,
   param |-> param, tok |-> tok, db |-> table]

\* APIv1.handlePostToken
handlePostToken(d, table, id, body, now) ==
  IF id = "" THEN Answer(404, "missing", "missing", "", "{id}", ZeroToken, table)
  ELSE LET res == Validate(d, table, body, now) IN
       IF res.err = ErrInvalidToken
       THEN Answer(400, res.err, "invalid_value", "/", "", ZeroToken, table)
       ELSE IF res.err = ErrTokenUsed \/ res.err = ErrTokenRevoked
       THEN Answer(400, res.err, "conflict", "/", "", ZeroToken, table)
       ELSE IF res.err # "nil"
       THEN Answer(500, res.err, "act_of_god", "", "", ZeroToken, table)
       ELSE IF id # res.tok.ID
       THEN Answer(400, "invalid_value", "invalid_value", "", "{id}", ZeroToken, table)
       ELSE Answer(200, "nil", "", "", "", apiToken(res.tok), table)

(***************************************************************************)
(* The state machine.                                                      *)
(***************************************************************************)
VARIABLES
  backend,  \* which Storer implementation the process was built with
  db,       \* the committed table of that Storer
  last,     \* the last completed operation: its inputs, its result, the table before it
  calls,    \* per goroutine: where its UseToken call stands, what it found, what it returned
  lock,     \* memdb's writer lock: the goroutine holding the write transaction, 0 when free
  txn,      \* the working table of the open write transaction
  target,   \* the ID the concurrent UseToken calls present, "" when none run
  pager     \* a caller paging through a profile: its cursor and the IDs it has received

vars == <<backend, db, last, calls, lock, txn, target, pager>>

Callers == 1..NumCallers

\* the (ProfileID, ClientID, AccountID) triples of the records callers create
Placements ==
  {<<"p1", "c1", "a1">>, <<"p2", "c1", "a1">>, <<"p1", "c2", "a1">>, <<"p1", "c1", "a2">>}

\* the records callers pass to Storer.CreateToken
TokenInputs ==
  {[ID |-> i, CreatedAt |-> at, CreatedFrom |-> cf, Scopes |-> sc,
    ProfileID |-> pl[1], ClientID |-> pl[2], AccountID |-> pl[3],
    Revoked |-> rv, Used |-> us] :
     i \in IDs, at \in CreatedAts, cf \in CreatedFroms, sc \in ScopeLists,
     pl \in Placements, rv \in BOOLEAN, us \in BOOLEAN}

\* the bodies posted to POST /
InsertBodies ==
  [ID : {"", "b"}, CreatedAt : {0, 900}, CreatedFrom : {"web"}, Scopes : ScopeLists,
   ProfileID : {"", "p1"}, ClientID : {"c1"}, Revoked : BOOLEAN, Used : BOOLEAN]

\* the bodies sent to PATCH /{id}
PatchBodies ==
  [ID : {"", "b"}, ProfileID : {"", "p1"}, ClientID : {""},
   Revoked : BoolPtrs, Used : BoolPtrs]

\* the instants at which requests arrive
Nows == {898, 1000, 1300}

\* a record that was never stored
GhostToken ==
  [ID |-> "ghost", CreatedAt |-> 900, CreatedFrom |-> "web", Scopes |-> <<>>,
   ProfileID |-> "p1", ClientID |-> "c1", AccountID |-> "a1",
   Revoked |-> FALSE, Used |-> FALSE]

\* the envelopes presented: minted by CreateJWT for a stored or an unknown
\* record, or such an envelope re-signed with HMAC, or minted under key K2
Envelopes(d, table) ==
  LET minted == {CreateJWT(d, t) : t \in Stored(d.Storer, table) \cup {GhostToken}} IN
  minted
  \cup {[e EXCEPT !.alg = "HS256"] : e \in minted}
  \cup {[e EXCEPT !.kid = Fingerprint("K2"), !.signedBy = "K2"] : e \in minted}

IdleCalls == [p \in Callers |-> [pc |-> "idle", found |-> ZeroToken, err |-> ""]]

\* apiv1.RefreshToken{}, the zero value of the wire type
ZeroBody ==
  [ID |-> "", CreatedAt |-> 0, CreatedFrom |-> "", Scopes |-> <<>>,
   ProfileID |-> "", ClientID |-> "", Revoked |-> FALSE, Used |-> FALSE]

NoOp ==
  [op |-> "", id |-> "", token |-> ZeroToken, body |-> ZeroBody, change |-> ZeroChange,
   jwt |-> ZeroJWT, now |-> 0, err |-> "", status |-> 0, tok |-> ZeroToken,
   profile |-> "", since |-> 0, before |-> 0, page |-> <<>>,
   key |-> "", down |-> FALSE, looked |-> FALSE,
   ctx |-> "", slug |-> "", field |-> "", param |-> "",
   pre |-> {}]

\* no caller is paging
IdlePager == [state |-> "idle", profile |-> "", before |-> 0, seen |-> <<>>]

Init ==
  /\ backend \in Backends
  /\ db = {}
  /\ last = NoOp
  /\ calls = IdleCalls
  /\ lock = 0
  /\ txn = {}
  /\ target = ""
  /\ pager = IdlePager

\* Storer.CreateToken(token)
DoCreateToken ==
  /\ last.op = ""
  /\ \E token \in TokenInputs :
    LET res == CreateToken(backend, db, token) IN
    /\ Cardinality(res.db) <= MaxTokens
    /\ db' = res.db
    /\ last' = [NoOp EXCEPT !.op = "CreateToken", !.token = token,
                            !.err = res.err, !.pre = db]
    /\ UNCHANGED <<backend, calls, lock, txn, target, pager>>

\* Storer.GetToken(id)
DoGetToken ==
  /\ last.op = ""
  /\ \E id \in IDs :
    LET res == GetToken(backend, db, id) IN
    /\ last' = [NoOp EXCEPT !.op = "GetToken", !.id = id, !.err = res.err,
                            !.tok = res.tok, !.pre = db]
    /\ UNCHANGED <<backend, db, calls, lock, txn, target, pager>>

\* Storer.UpdateTokens(change)
DoUpdateTokens ==
  /\ last.op = ""
  /\ \E change \in RefreshTokenChange :
    LET res == UpdateTokens(backend, db, change) IN
    /\ db' = res.db
    /\ last' = [NoOp EXCEPT !.op = "UpdateTokens", !.change = change,
                            !.err = res.err, !.pre = db]
    /\ UNCHANGED <<backend, calls, lock, txn, target, pager>>

\* Storer.UseToken(id), called alone
DoUseToken ==
  /\ last.op = ""
  /\ \E id \in IDs :
    LET res == UseToken(backend, db, id) IN
    /\ db' = res.db
    /\ last' = [NoOp EXCEPT !.op = "UseToken", !.id = id, !.err = res.err,
                            !.pre = db]
    /\ UNCHANGED <<backend, calls, lock, txn, target, pager>>

\* the profiles and the bounds callers list with
ListProfiles == {"p1", "P1"}
ListBounds == {0, 900}

\* Storer.GetTokensByProfileID(profileID, since, before)
DoGetTokensByProfileID ==
  /\ last.op = ""
  /\ \E profileID \in ListProfiles : \E since \in {0} : \E before \in ListBounds :
     \E page \in GetTokensByProfileID(backend, db, profileID, since, before) :
       /\ last' = [NoOp EXCEPT !.op = "GetTokensByProfileID", !.profile = profileID,
                               !.since = since, !.before = before, !.page = page,
                               !.err = "nil", !.pre = db]
       /\ UNCHANGED <<backend, db, calls, lock, txn, target, pager>>

\* Dependencies.CreateJWT(token) for a stored record
DoCreateJWT ==
  /\ last.op = ""
  /\ \E t \in Stored(backend, db) :
    /\ last' = [NoOp EXCEPT !.op = "CreateJWT", !.token = t,
                            !.jwt = CreateJWT(Dependencies(backend), t),
                            !.err = "nil", !.pre = db]
    /\ UNCHANGED <<backend, db, calls, lock, txn, target, pager>>

\* the configurations Validate runs under: the key pair tokensd was started
\* with or the pair it is restarted with after a rotation, and a database
\* connection that works or is lost
Configurations(b) ==
  {[Dependencies(b) EXCEPT !.JWTPrivateKey = k, !.JWTPublicKey = k, !.StorerDown = down] :
     k \in {"K1", "K2"}, down \in {FALSE, b = "postgres"}}

\* Dependencies.Validate(jwtVal) at instant now
DoValidate ==
  /\ last.op = ""
  /\ \E now \in Nows : \E d \in Configurations(backend) :
    \E jwtVal \in Envelopes(Dependencies(backend), db) :
      LET res == Validate(d, db, jwtVal, now) IN
      /\ db' = res.db
      /\ last' = [NoOp EXCEPT !.op = "Validate", !.jwt = jwtVal, !.now = now,
                              !.key = d.JWTPublicKey, !.down = d.StorerDown,
                              !.looked = res.looked,
                              !.err = res.err, !.tok = res.tok, !.pre = db]
      /\ UNCHANGED <<backend, calls, lock, txn, target, pager>>

\* POST /
HandleInsertToken ==
  /\ last.op = ""
  /\ \E body \in InsertBodies : \E uuid \in IDs : \E now \in {1000} :
    LET res == handleInsertToken(Dependencies(backend), db, body, uuid, now) IN
    /\ Cardinality(res.db) <= MaxTokens
    /\ db' = res.db
    /\ last' = [NoOp EXCEPT !.op = "POST /",
                            !.token = FillTokenDefaults(coreToken(body), uuid, now),
                            !.now = now, !.err = res.err, !.status = res.status,
                            !.tok = res.tok, !.pre = db]
    /\ UNCHANGED <<backend, calls, lock, txn, target, pager>>

\* GET /{id}
HandleGetToken ==
  /\ last.op = ""
  /\ \E id \in IDs :
    LET res == handleGetToken(Dependencies(backend), db, id) IN
    /\ last' = [NoOp EXCEPT !.op = "GET /{id}", !.id = id, !.err = res.err,
                            !.status = res.status, !.tok = res.tok, !.pre = db]
    /\ UNCHANGED <<backend, db, calls, lock, txn, target, pager>>

\* PATCH /{id}
HandlePatchToken ==
  /\ last.op = ""
  /\ \E id \in IDs : \E body \in PatchBodies :
    LET res == handlePatchToken(Dependencies(backend), db, id, body) IN
    /\ db' = res.db
    /\ last' = [NoOp EXCEPT !.op = "PATCH /{id}", !.id = id,
                            !.change = coreChange([body EXCEPT !.ID = id]),
                            !.err = res.err,
                            !.status = res.status, !.tok = res.tok, !.pre = db]
    /\ UNCHANGED <<backend, calls, lock, txn, target, pager>>

\* POST /{id}
HandlePostToken ==
  /\ last.op = ""
  /\ \E id \in IDs : \E now \in Nows :
    \E body \in Envelopes(Dependencies(backend), db) :
      LET res == handlePostToken(Dependencies(backend), db, id, body, now) IN
      /\ last' = [NoOp EXCEPT !.op = "POST /{id}", !.id = id, !.jwt = body,
                              !.now = now, !.err = res.err, !.status = res.status,
                              !.slug = res.slug, !.field = res.field,
                              !.param = res.param,
                              !.tok = res.tok, !.pre = db]
      /\ UNCHANGED <<backend, db, calls, lock, txn, target, pager>>

\* the caller takes the result; the next operation may start
Respond ==
  /\ last.op # ""
  /\ target = ""
  /\ last' = NoOp
  /\ UNCHANGED <<backend, db, calls, lock, txn, target, pager>>

Next ==
  \/ Respond
  \/ DoCreateToken
  \/ DoGetToken
  \/ DoUpdateTokens
  \/ DoUseToken
  \/ DoGetTokensByProfileID
  \/ DoCreateJWT
  \/ DoValidate
  \/ HandleInsertToken
  \/ HandleGetToken
  \/ HandlePatchToken
  \/ HandlePostToken

Spec == Init /\ [][Next]_vars

(***************************************************************************)
(* Concurrent UseToken: NumCallers goroutines present the same ID, each    *)
(* call advancing one statement at a time.                                 *)
(***************************************************************************)
\* the unused records the goroutines race for
RaceTargets == {t \in TokenInputs : ~t.Used}

\* the other record the store may hold during the race
RaceOthers == {t \in TokenInputs : t.ProfileID = "p1" /\ t.ClientID = "c1" /\ t.AccountID = "a1"}

InitRace ==
  /\ backend \in Backends
  /\ \E t \in RaceTargets : \E u \in RaceOthers :
       /\ db = CreateToken(backend, CreateToken(backend, {}, t).db, u).db
       /\ target = t.ID
  /\ last = NoOp
  /\ calls = [p \in Callers |-> [pc |-> "start", found |-> ZeroToken, err |-> ""]]
  /\ lock = 0
  /\ txn = {}
  /\ pager = IdlePager

\* the call of goroutine p returns err
Return(p, err) == [calls EXCEPT ![p].pc = "done", ![p].err = err]

\* memory UseToken: m.db.Txn(true) takes the writer lock
MemUseTxn(p) ==
  /\ backend = "memory"
  /\ calls[p].pc = "start"
  /\ lock = 0
  /\ lock' = p
  /\ txn' = db
  /\ calls' = [calls EXCEPT ![p].pc = "first"]
  /\ UNCHANGED <<backend, db, last, target, pager>>

\* memory UseToken: txn.First and the nil test; the deferred Abort frees the lock
MemUseFirst(p) ==
  /\ backend = "memory"
  /\ calls[p].pc = "first"
  /\ LET found == MemGet(txn, "ID", target) IN
     IF found = {}
     THEN /\ calls' = Return(p, ErrTokenNotFound)
          /\ lock' = 0
          /\ txn' = {}
     ELSE /\ calls' = [calls EXCEPT ![p].pc = "insert",
                                    ![p].found = CHOOSE r \in found : TRUE]
          /\ UNCHANGED <<lock, txn>>
  /\ UNCHANGED <<backend, db, last, target, pager>>

\* memory UseToken: the Used test, ApplyChange and txn.Insert
MemUseInsert(p) ==
  /\ backend = "memory"
  /\ calls[p].pc = "insert"
  /\ IF calls[p].found.Used
     THEN /\ calls' = Return(p, ErrTokenUsed)
          /\ lock' = 0
          /\ txn' = {}
     ELSE /\ txn' = MemInsert(txn, ApplyChange(calls[p].found,
                                               [ZeroChange EXCEPT !.Used = <<TRUE>>]))
          /\ calls' = [calls EXCEPT ![p].pc = "commit"]
          /\ UNCHANGED lock
  /\ UNCHANGED <<backend, db, last, target, pager>>

\* memory UseToken: txn.Commit publishes the working table and frees the lock
MemUseCommit(p) ==
  /\ backend = "memory"
  /\ calls[p].pc = "commit"
  /\ db' = txn
  /\ lock' = 0
  /\ txn' = {}
  /\ calls' = Return(p, "nil")
  /\ UNCHANGED <<backend, last, target, pager>>

\* postgres UseToken: the conditional UPDATE and the RowsAffected test
PgUseExec(p) ==
  /\ backend = "postgres"
  /\ calls[p].pc = "start"
  /\ db' = PgUseUpdate(db, target)
  /\ calls' = IF PgUseAffected(db, target) >= 1 THEN Return(p, "nil")
              ELSE [calls EXCEPT ![p].pc = "probe"]
  /\ UNCHANGED <<backend, last, lock, txn, target, pager>>

\* postgres UseToken: the COUNT probe and the classification
PgUseQueryRow(p) ==
  /\ backend = "postgres"
  /\ calls[p].pc = "probe"
  /\ calls' = Return(p, PgUseProbe(db, target))
  /\ UNCHANGED <<backend, db, last, lock, txn, target, pager>>

NextRace ==
  \E p \in Callers :
    \/ MemUseTxn(p)
    \/ MemUseFirst(p)
    \/ MemUseInsert(p)
    \/ MemUseCommit(p)
    \/ PgUseExec(p)
    \/ PgUseQueryRow(p)

SpecRace == InitRace /\ [][NextRace]_vars

\* the calls that have returned with err
Returned(err) == {p \in Callers : calls[p].pc = "done" /\ calls[p].err = err}

RaceOver == \A p \in Callers : calls[p].pc = "done"

\* C1: of the concurrent UseToken calls on an unused record exactly one
\* returns success and every other returns ErrTokenUsed, in both backends and
\* whatever the interleaving; no call returns another error.
C1_SingleUseAtomicity ==
  target # "" =>
    /\ \A p \in Callers :
         calls[p].pc = "done" => calls[p].err \in {"nil", ErrTokenUsed}
    /\ Cardinality(Returned("nil")) <= 1
    /\ (RaceOver => /\ Cardinality(Returned("nil")) = 1
                    /\ Cardinality(Returned(ErrTokenUsed)) = NumCallers - 1)

\* every goroutine has returned, one of them after reaching the COUNT probe
C1_Witness ==
  /\ target # ""
  /\ NumCallers >= 2
  /\ RaceOver
  /\ Returned(ErrTokenUsed) # {}

(***************************************************************************)
(* Concurrent calls on one record: every goroutine makes one Storer call   *)
(* on the record created last (UseToken, UpdateTokens, GetToken or         *)
(* GetTokensByProfileID), each call advancing one statement or one         *)
(* transaction step at a time.                                             *)
(***************************************************************************)
\* the record the calls are about, created in any of the four flag states
SharedRecords ==
  {[ID |-> "a", CreatedAt |-> 900, CreatedFrom |-> "web", Scopes |-> <<"read", "NULL">>,
    ProfileID |-> "p1", ClientID |-> "c1", AccountID |-> "a1",
    Revoked |-> rv, Used |-> us] : rv \in BOOLEAN, us \in BOOLEAN}

\* another record of the same profile
Bystander ==
  [ID |-> "b", CreatedAt |-> 901, CreatedFrom |-> "web", Scopes |-> <<>>,
   ProfileID |-> "p1", ClientID |-> "c1", AccountID |-> "a1",
   Revoked |-> FALSE, Used |-> FALSE]

\* a goroutine about to make a call
Start(op, pc, change) ==
  [pc |-> pc, found |-> ZeroToken, err |-> "", op |-> op, change |-> change,
   iter |-> {}, page |-> <<>>]

\* the calls a goroutine may make, in a fixed order
SharedStarts ==
  <<Start("UseToken", "start", ZeroChange),
    Start("UpdateTokens", "update", [ZeroChange EXCEPT !.ID = "a", !.Revoked = <<TRUE>>]),
    Start("UpdateTokens", "update", [ZeroChange EXCEPT !.ID = "a", !.Used = <<TRUE>>]),
    Start("UpdateTokens", "update", [ZeroChange EXCEPT !.ID = "a", !.Used = <<FALSE>>]),
    Start("UpdateTokens", "update",
          [ZeroChange EXCEPT !.ProfileID = "p1", !.Revoked = <<TRUE>>, !.Used = <<TRUE>>]),
    Start("GetToken", "get", ZeroChange),
    Start("GetTokensByProfileID", "list", ZeroChange)>>

\* the goroutines are interchangeable, so they are numbered in the order of
\* the calls they make
InitShared ==
  /\ backend \in Backends
  /\ \E t \in SharedRecords :
       /\ db = CreateToken(backend, CreateToken(backend, {}, Bystander).db, t).db
       /\ target = t.ID
       /\ last = [NoOp EXCEPT !.op = "CreateToken", !.token = t, !.err = "nil",
                              !.pre = CreateToken(backend, {}, Bystander).db]
  /\ \E f \in [Callers -> 1..Len(SharedStarts)] :
       /\ \A p \in Callers : \A q \in Callers : p < q => f[p] <= f[q]
       /\ calls = [p \in Callers |-> SharedStarts[f[p]]]
  /\ lock = 0
  /\ txn = {}
  /\ pager = IdlePager

\* memory UpdateTokens: the IsEmpty and HasFilter tests, then m.db.Txn(true)
\* takes the writer lock and txn.Get fixes the iterator's snapshot
MemUpdateTxn(p) ==
  /\ backend = "memory"
  /\ calls[p].pc = "update"
  /\ IF IsEmpty(calls[p].change)
     THEN /\ calls' = Return(p, "nil")
          /\ UNCHANGED <<lock, txn>>
     ELSE IF ~HasFilter(calls[p].change)
     THEN /\ calls' = Return(p, ErrNoTokenChangeFilter)
          /\ UNCHANGED <<lock, txn>>
     ELSE /\ lock = 0
          /\ lock' = p
          /\ txn' = db
          /\ calls' = [calls EXCEPT ![p].pc = "next",
                                    ![p].iter = MemUpdateIter(db, calls[p].change)]
  /\ UNCHANGED <<backend, db, last, target, pager>>

\* mutant of MemUpdateNext: each Insert of the loop writes the committed
\* table as well as the transaction's working table
MemUpdateNextInPlace(p) ==
  /\ backend = "memory"
  /\ calls[p].pc = "next"
  /\ calls[p].iter # {}
  /\ \E tok \in calls[p].iter :
       IF ~MemUpdateKeeps(tok, calls[p].change)
       THEN /\ calls' = [calls EXCEPT ![p].iter = @ \ {tok}]
            /\ UNCHANGED <<db, lock, txn>>
       ELSE IF ~MemCanInsert(ApplyChange(tok, calls[p].change))
       THEN /\ calls' = Return(p, "error")
            /\ lock' = 0
            /\ txn' = {}
            /\ UNCHANGED db
       ELSE /\ txn' = MemInsert(txn, ApplyChange(tok, calls[p].change))
            /\ db' = MemInsert(db, ApplyChange(tok, calls[p].change))
            /\ calls' = [calls EXCEPT ![p].iter = @ \ {tok}]
            /\ UNCHANGED lock
  /\ UNCHANGED <<backend, last, target, pager>>

\* memory UpdateTokens: one turn of the loop: iter.Next, the continue tests,
\* ApplyChange and txn.Insert; a failed Insert returns through the deferred Abort
MemUpdateNext(p) ==
  /\ backend = "memory"
  /\ calls[p].pc = "next"
  /\ calls[p].iter # {}
  /\ \E tok \in calls[p].iter :
       IF ~MemUpdateKeeps(tok, calls[p].change)
       THEN /\ calls' = [calls EXCEPT ![p].iter = @ \ {tok}]
            /\ UNCHANGED <<lock, txn>>
       ELSE IF ~MemCanInsert(ApplyChange(tok, calls[p].change))
       THEN /\ calls' = Return(p, "error")
            /\ lock' = 0
            /\ txn' = {}
       ELSE /\ txn' = MemInsert(txn, ApplyChange(tok, calls[p].change))
            /\ calls' = [calls EXCEPT ![p].iter = @ \ {tok}]
            /\ UNCHANGED lock
  /\ UNCHANGED <<backend, db, last, target, pager>>

\* memory UpdateTokens: the iterator is exhausted; txn.Commit publishes the
\* working table and frees the lock
MemUpdateCommit(p) ==
  /\ backend = "memory"
  /\ calls[p].pc = "next"
  /\ calls[p].iter = {}
  /\ db' = txn
  /\ lock' = 0
  /\ txn' = {}
  /\ calls' = Return(p, "nil")
  /\ UNCHANGED <<backend, last, target, pager>>

\* postgres UpdateTokens: the one UPDATE statement
PgUpdateExec(p) ==
  /\ backend = "postgres"
  /\ calls[p].pc = "update"
  /\ db' = PostgresUpdateTokens(db, calls[p].change).db
  /\ calls' = Return(p, PostgresUpdateTokens(db, calls[p].change).err)
  /\ UNCHANGED <<backend, last, lock, txn, target, pager>>

\* GetToken: the read transaction's snapshot of the committed table / the
\* SELECT statement
SharedGetToken(p) ==
  /\ calls[p].pc = "get"
  /\ calls' = [calls EXCEPT ![p].pc = "done",
                            ![p].err = GetToken(backend, db, target).err,
                            ![p].found = GetToken(backend, db, target).tok]
  /\ UNCHANGED <<backend, db, last, lock, txn, target, pager>>

\* GetTokensByProfileID of the record's profile, without bounds
SharedGetTokensByProfileID(p) ==
  /\ calls[p].pc = "list"
  /\ \E page \in GetTokensByProfileID(backend, db, last.token.ProfileID, 0, 0) :
       calls' = [calls EXCEPT ![p].pc = "done", ![p].err = "nil", ![p].page = page]
  /\ UNCHANGED <<backend, db, last, lock, txn, target, pager>>

NextShared ==
  \E p \in Callers :
    \/ MemUseTxn(p)
    \/ MemUseFirst(p)
    \/ MemUseInsert(p)
    \/ MemUseCommit(p)
    \/ PgUseExec(p)
    \/ PgUseQueryRow(p)
    \/ MemUpdateTxn(p)
    \/ MemUpdateNext(p)
    \/ MemUpdateCommit(p)
    \/ PgUpdateExec(p)
    \/ SharedGetToken(p)
    \/ SharedGetTokensByProfileID(p)

SpecShared == InitShared /\ [][NextShared]_vars

(***************************************************************************)
(* Listing and paging: a store that holds more records of one profile than *)
(* a listing returns, a caller that lists it with any bounds, and a caller *)
(* that pages through it with the cursor `before` set to the oldest        *)
(* CreatedAt of the page it received.                                      *)
(***************************************************************************)
\* record number i of the paged profile
ListRecord(i, at) ==
  [ID |-> ToString(i), CreatedAt |-> at, CreatedFrom |-> "web",
   Scopes |-> <<"read", "NULL">>, ProfileID |-> "p1", ClientID |-> "c1",
   AccountID |-> "a1", Revoked |-> (i % 2 = 0), Used |-> (i % 2 # 0)]

\* a record of another profile
OtherRecord ==
  [ID |-> "other", CreatedAt |-> 902, CreatedFrom |-> "web", Scopes |-> <<>>,
   ProfileID |-> "p2", ClientID |-> "c1", AccountID |-> "a1",
   Revoked |-> TRUE, Used |-> FALSE]

\* the newest records, created one hour apart
SpacedRecords == {ListRecord(i, 903 + i) : i \in 1..(NumTokenResults - 1)}

\* the CreatedAt values of the oldest records, which may coincide
CrowdedTimes == {901, 902, 903}

RECURSIVE CreateAll(_, _, _)
\* CreateToken of every record of a set
CreateAll(b, table, records) ==
  IF records = {} THEN table
  ELSE LET r == CHOOSE x \in records : TRUE IN
       CreateAll(b, CreateToken(b, table, r).db, records \ {r})

InitList ==
  /\ backend \in Backends
  /\ \E n \in (NumTokenResults + 1)..MaxListed :
       \E at \in [NumTokenResults..n -> CrowdedTimes] :
         db = CreateAll(backend, {},
                        SpacedRecords \cup {OtherRecord}
                        \cup {ListRecord(i, at[i]) : i \in NumTokenResults..n})
  /\ last = NoOp
  /\ calls = IdleCalls
  /\ lock = 0
  /\ txn = {}
  /\ target = ""
  /\ pager = [state |-> "paging", profile |-> "p1", before |-> 0, seen |-> <<>>]

\* the profiles and bounds of the listings
PagedProfiles == {"p1", "P1", "p2"}
PagedBounds == {0, 902, 903, 904}

\* GetTokensByProfileID(profileID, since, before) with any bounds, called
\* before the paging starts
ListCall ==
  /\ last.op = ""
  /\ \E profileID \in PagedProfiles : \E since \in PagedBounds : \E before \in PagedBounds :
     \E page \in GetTokensByProfileID(backend, db, profileID, since, before) :
       last' = [NoOp EXCEPT !.op = "GetTokensByProfileID", !.profile = profileID,
                            !.since = since, !.before = before, !.page = page,
                            !.err = "nil", !.pre = db]
  /\ UNCHANGED <<backend, db, calls, lock, txn, target, pager>>

\* the IDs of a listing, in its order
PageIDs(page) == [i \in 1..Len(page) |-> page[i].ID]

\* the pager asks for the next page and moves its cursor to the oldest
\* CreatedAt of what it received; an empty page ends the paging
PageNext ==
  /\ pager.state = "paging"
  /\ \E page \in GetTokensByProfileID(backend, db, pager.profile, 0, pager.before) :
       /\ last' = [NoOp EXCEPT !.op = "GetTokensByProfileID", !.profile = pager.profile,
                               !.before = pager.before, !.page = page,
                               !.err = "nil", !.pre = db]
       /\ pager' = IF page = <<>> THEN [pager EXCEPT !.state = "done"]
                   ELSE [pager EXCEPT !.before = page[Len(page)].CreatedAt,
                                      !.seen = @ \o PageIDs(page)]
  /\ UNCHANGED <<backend, db, calls, lock, txn, target>>

NextList ==
  \/ ListCall
  \/ PageNext

SpecList == InitList /\ [][NextList]_vars

(***************************************************************************)
(* Creation: records offered to Storer.CreateToken and bodies posted to    *)
(* POST / with any of the fields left at its zero value.                   *)
(***************************************************************************)
\* the records callers pass to Storer.CreateToken, complete or not
CreationInputs ==
  [ID : {"a", "b"}, CreatedAt : {0, 900}, CreatedFrom : {"", "web"},
   Scopes : ScopeLists, ProfileID : {"", "p1"}, ClientID : {"", "c1"},
   AccountID : {"a1"}, Revoked : BOOLEAN, Used : BOOLEAN]

\* the bodies posted to POST /, complete or not
CreationBodies ==
  [ID : {"", "b"}, CreatedAt : {0, 900}, CreatedFrom : {"", "web"},
   Scopes : ScopeLists, ProfileID : {"", "p1"}, ClientID : {"", "c1"},
   Revoked : BOOLEAN, Used : BOOLEAN]

InitCreate ==
  /\ backend \in Backends
  /\ db = {}
  /\ last = NoOp
  /\ calls = IdleCalls
  /\ lock = 0
  /\ txn = {}
  /\ target = ""
  /\ pager = IdlePager

\* Storer.CreateToken(token) with any record
CreateAny ==
  /\ last.op = ""
  /\ \E token \in CreationInputs :
    LET res == CreateToken(backend, db, token) IN
    /\ Cardinality(res.db) <= MaxTokens
    /\ db' = res.db
    /\ last' = [NoOp EXCEPT !.op = "CreateToken", !.token = token,
                            !.err = res.err, !.pre = db]
    /\ UNCHANGED <<backend, calls, lock, txn, target, pager>>

\* POST / with any body
InsertAny ==
  /\ last.op = ""
  /\ \E body \in CreationBodies : \E uuid \in {"a"} : \E now \in {1000} :
    LET res == handleInsertToken(Dependencies(backend), db, body, uuid, now) IN
    /\ Cardinality(res.db) <= MaxTokens
    /\ db' = res.db
    /\ last' = [NoOp EXCEPT !.op = "POST /", !.body = body,
                            !.token = FillTokenDefaults(coreToken(body), uuid, now),
                            !.now = now, !.err = res.err, !.status = res.status,
                            !.tok = res.tok, !.pre = db]
    /\ UNCHANGED <<backend, calls, lock, txn, target, pager>>

NextCreate ==
  \/ Respond
  \/ CreateAny
  \/ InsertAny

SpecCreate == InitCreate /\ [][NextCreate]_vars

(***************************************************************************)
(* Cancellation: Storer calls made with a context that is live, was        *)
(* cancelled before the call, or is cancelled while the call runs.         *)
(***************************************************************************)
\* the states of the context.Context a caller passes
Contexts == {"live", "cancelled before", "cancelled during"}

\* GetToken(ctx, id): memory names the parameter _; postgres hands ctx to
\* getTokenSQL, which names it _, and runs s.db.Query without it
GetTokenCtx(b, ctx, table, id) == GetToken(b, table, id)

\* CreateToken(ctx, token): the parameter is named _ in both backends
CreateTokenCtx(b, ctx, table, token) == CreateToken(b, table, token)

\* UpdateTokens(ctx, change): memory names the parameter _; postgres hands
\* ctx to updateTokensSQL, which names it _, and runs s.db.Exec without it
UpdateTokensCtx(b, ctx, table, change) == UpdateTokens(b, table, change)

\* UseToken(ctx, id): memory names the parameter _; postgres runs s.db.Exec
\* and s.db.QueryRow without ctx
UseTokenCtx(b, ctx, table, id) == UseToken(b, table, id)

\* GetTokensByProfileID(ctx, profileID, since, before): as GetToken
GetTokensByProfileIDCtx(b, ctx, table, profileID, since, before) ==
  GetTokensByProfileID(b, table, profileID, since, before)

\* the records and changes of the calls
CtxTokens == {t \in TokenInputs : t.ID \in {"a", "b"} /\ t.ProfileID = "p1"
                                  /\ t.ClientID = "c1" /\ t.AccountID = "a1"}
CtxChanges == {c \in RefreshTokenChange : c.ID \in {"", "a"} /\ c.ClientID = ""
                                          /\ c.AccountID = ""}

InitCtx ==
  /\ backend \in Backends
  /\ db = {}
  /\ last = NoOp
  /\ calls = IdleCalls
  /\ lock = 0
  /\ txn = {}
  /\ target = ""
  /\ pager = IdlePager

\* Storer.CreateToken(ctx, token)
CallCreateToken ==
  /\ last.op = ""
  /\ \E ctx \in Contexts : \E token \in CtxTokens :
    LET res == CreateTokenCtx(backend, ctx, db, token) IN
    /\ Cardinality(res.db) <= MaxTokens
    /\ db' = res.db
    /\ last' = [NoOp EXCEPT !.op = "CreateToken", !.ctx = ctx, !.token = token,
                            !.err = res.err, !.pre = db]
    /\ UNCHANGED <<backend, calls, lock, txn, target, pager>>

\* Storer.UpdateTokens(ctx, change)
CallUpdateTokens ==
  /\ last.op = ""
  /\ \E ctx \in Contexts : \E change \in CtxChanges :
    LET res == UpdateTokensCtx(backend, ctx, db, change) IN
    /\ db' = res.db
    /\ last' = [NoOp EXCEPT !.op = "UpdateTokens", !.ctx = ctx, !.change = change,
                            !.err = res.err, !.pre = db]
    /\ UNCHANGED <<backend, calls, lock, txn, target, pager>>

\* Storer.UseToken(ctx, id)
CallUseToken ==
  /\ last.op = ""
  /\ \E ctx \in Contexts : \E id \in IDs :
    LET res == UseTokenCtx(backend, ctx, db, id) IN
    /\ db' = res.db
    /\ last' = [NoOp EXCEPT !.op = "UseToken", !.ctx = ctx, !.id = id,
                            !.err = res.err, !.pre = db]
    /\ UNCHANGED <<backend, calls, lock, txn, target, pager>>

\* Storer.GetToken(ctx, id)
CallGetToken ==
  /\ last.op = ""
  /\ \E ctx \in Contexts : \E id \in IDs :
    LET res == GetTokenCtx(backend, ctx, db, id) IN
    /\ last' = [NoOp EXCEPT !.op = "GetToken", !.ctx = ctx, !.id = id,
                            !.err = res.err, !.tok = res.tok, !.pre = db]
    /\ UNCHANGED <<backend, db, calls, lock, txn, target, pager>>

\* Storer.GetTokensByProfileID(ctx, profileID, since, before)
CallGetTokensByProfileID ==
  /\ last.op = ""
  /\ \E ctx \in Contexts : \E profileID \in ListProfiles : \E before \in ListBounds :
     \E page \in GetTokensByProfileIDCtx(backend, ctx, db, profileID, 0, before) :
       /\ last' = [NoOp EXCEPT !.op = "GetTokensByProfileID", !.ctx = ctx,
                               !.profile = profileID, !.before = before,
                               !.page = page, !.err = "nil", !.pre = db]
       /\ UNCHANGED <<backend, db, calls, lock, txn, target, pager>>

NextCtx ==
  \/ Respond
  \/ CallCreateToken
  \/ CallUpdateTokens
  \/ CallUseToken
  \/ CallGetToken
  \/ CallGetTokensByProfileID

SpecCtx == InitCtx /\ [][NextCtx]_vars

(***************************************************************************)
(* ApplyChange as a function: any record, any change, applied once and     *)
(* then once more to its own result.                                       *)
(***************************************************************************)
InitApply ==
  /\ backend \in Backends
  /\ db = {}
  /\ last = NoOp
  /\ calls = IdleCalls
  /\ lock = 0
  /\ txn = {}
  /\ target = ""
  /\ pager = IdlePager

\* result := ApplyChange(t, change)
DoApplyChange ==
  /\ last.op = ""
  /\ \E t \in TokenInputs : \E change \in RefreshTokenChange :
       last' = [NoOp EXCEPT !.op = "ApplyChange", !.token = t, !.change = change,
                            !.tok = ApplyChange(t, change), !.pre = {t}]
  /\ UNCHANGED <<backend, db, calls, lock, txn, target, pager>>

\* result = ApplyChange(result, change), with the change of the first call
DoApplyChangeAgain ==
  /\ last.op = "ApplyChange"
  /\ last' = [last EXCEPT !.op = "ApplyChange again",
                          !.tok = ApplyChange(last.tok, last.change),
                          !.pre = {last.tok}]
  /\ UNCHANGED <<backend, db, calls, lock, txn, target, pager>>

NextApply ==
  \/ DoApplyChange
  \/ DoApplyChangeAgain

SpecApply == InitApply /\ [][NextApply]_vars

(***************************************************************************)
(* The earlier go-memdb store (storers.Memstore): a table "token" with a   *)
(* unique index on ID and non-unique indexes on ProfileID and ClientID,    *)
(* every index with Lowercase: true.                                       *)
(***************************************************************************)
\* txn.Insert can index the object only if no indexed field is empty
MemstoreCanInsert(obj) == \A f \in {"ID", "ProfileID", "ClientID"} : obj[f] # ""

\* Memstore.CreateToken
MemstoreCreateToken(table, token) ==
  IF MemGet(table, "ID", token.ID) # {}
  THEN [err |-> ErrTokenAlreadyExists, db |-> table]
  ELSE IF ~MemstoreCanInsert(token) THEN [err |-> "error", db |-> table]
  ELSE [err |-> "nil", db |-> MemInsert(table, token)]

\* the index scan Memstore.UpdateTokens starts from: the first of ID,
\* ProfileID and ClientID that the change carries
MemstoreUpdateIter(table, change) ==
  IF change.ID # "" THEN MemGet(table, "ID", change.ID)
  ELSE IF change.ProfileID # "" THEN MemGet(table, "ProfileID", change.ProfileID)
  ELSE MemGet(table, "ClientID", change.ClientID)

\* Memstore.UpdateTokens: every object of the scan is updated
MemstoreUpdateTokens(table, change) ==
  IF IsEmpty(change) THEN [err |-> "nil", db |-> table]
  ELSE IF change.ID = "" /\ change.ProfileID = "" /\ change.ClientID = ""
  THEN [err |-> "error", db |-> table]
  ELSE LET updated == {ApplyChange(tok, change) :
                         tok \in MemstoreUpdateIter(table, change)} IN
       IF \E u \in updated : ~MemstoreCanInsert(u)
       THEN [err |-> "error", db |-> table]
       ELSE [err |-> "nil", db |-> MemInsertAll(table, updated)]

\* a process built with a Memstore
InitMemstore ==
  /\ backend = "memstore"
  /\ db = {}
  /\ last = NoOp
  /\ calls = IdleCalls
  /\ lock = 0
  /\ txn = {}
  /\ target = ""
  /\ pager = IdlePager

\* Memstore.CreateToken(token)
MemstoreDoCreateToken ==
  /\ last.op = ""
  /\ \E token \in TokenInputs :
    LET res == MemstoreCreateToken(db, token) IN
    /\ Cardinality(res.db) <= MaxTokens
    /\ db' = res.db
    /\ last' = [NoOp EXCEPT !.op = "CreateToken", !.token = token,
                            !.err = res.err, !.pre = db]
    /\ UNCHANGED <<backend, calls, lock, txn, target, pager>>

\* Memstore.UpdateTokens(change)
MemstoreDoUpdateTokens ==
  /\ last.op = ""
  /\ \E change \in RefreshTokenChange :
    LET res == MemstoreUpdateTokens(db, change) IN
    /\ db' = res.db
    /\ last' = [NoOp EXCEPT !.op = "UpdateTokens", !.change = change,
                            !.err = res.err, !.pre = db]
    /\ UNCHANGED <<backend, calls, lock, txn, target, pager>>

NextMemstore ==
  \/ Respond
  \/ MemstoreDoCreateToken
  \/ MemstoreDoUpdateTokens

SpecMemstore == InitMemstore /\ [][NextMemstore]_vars

(***************************************************************************)
(* The Datastore backend (storers.Datastore): entities of kind             *)
(* RefreshToken keyed by the record's ID, and entities of kind             *)
(* RefreshTokenUse, keyed by the same ID, that hold the two flags.  A      *)
(* store is the set of the entities of each kind.                          *)
(***************************************************************************)
\* toDatastore: the entity stored under the record's ID
toDatastore(t) ==
  [ID |-> t.ID, CreatedAt |-> t.CreatedAt, CreatedFrom |-> t.CreatedFrom,
   Scopes |-> t.Scopes, ProfileID |-> t.ProfileID, ClientID |-> t.ClientID]

\* fromDatastore: the flags are filled in by the caller
fromDatastore(t) ==
  [ID |-> t.ID, CreatedAt |-> t.CreatedAt, CreatedFrom |-> t.CreatedFrom,
   Scopes |-> t.Scopes, ProfileID |-> t.ProfileID, ClientID |-> t.ClientID,
   AccountID |-> "", Revoked |-> FALSE, Used |-> FALSE]

\* datastoreTokenUse{}, what client.Get leaves in `use` on ErrNoSuchEntity
ZeroUse(id) == [ID |-> id, IsUse |-> FALSE, IsRevoke |-> FALSE]

\* client.Get with useKey(id)
DatastoreGetUse(store, id) ==
  IF \E u \in store.RefreshTokenUse : u.ID = id
  THEN CHOOSE u \in store.RefreshTokenUse : u.ID = id
  ELSE ZeroUse(id)

\* NewUpsert / PutMulti of a RefreshTokenUse entity
DatastorePutUse(store, use) ==
  [store EXCEPT !.RefreshTokenUse = {u \in @ : u.ID # use.ID} \cup {use}]

\* Datastore.GetToken
DatastoreGetToken(store, id) ==
  IF ~\E t \in store.RefreshToken : t.ID = id
  THEN [err |-> ErrTokenNotFound, tok |-> ZeroToken]
  ELSE [err |-> "nil",
        tok |-> [fromDatastore(CHOOSE t \in store.RefreshToken : t.ID = id)
                   EXCEPT !.Used = DatastoreGetUse(store, id).IsUse,
                          !.Revoked = DatastoreGetUse(store, id).IsRevoke]]

\* Datastore.CreateToken
DatastoreCreateToken(store, token) ==
  IF \E t \in store.RefreshToken : t.ID = token.ID
  THEN [err |-> ErrTokenAlreadyExists, db |-> store]
  ELSE LET inserted == [store EXCEPT !.RefreshToken = @ \cup {toDatastore(token)}] IN
       IF ~token.Used /\ ~token.Revoked THEN [err |-> "nil", db |-> inserted]
       ELSE [err |-> "nil",
             db |-> DatastorePutUse(inserted, [ID |-> token.ID, IsUse |-> token.Used,
                                               IsRevoke |-> token.Revoked])]

\* the IDs whose RefreshTokenUse entity UpdateTokens writes: change.ID as it
\* is, and the keys of the two queries
DatastoreUpdateKeys(store, change) ==
  (IF change.ID # "" THEN {change.ID} ELSE {})
  \cup (IF change.ProfileID # ""
        THEN {t.ID : t \in {e \in store.RefreshToken : e.ProfileID = change.ProfileID}}
        ELSE {})
  \cup (IF change.ClientID # ""
        THEN {t.ID : t \in {e \in store.RefreshToken : e.ClientID = change.ClientID}}
        ELSE {})

\* the one RefreshTokenUse value UpdateTokens writes under every key
DatastoreUpdateUse(change, id) ==
  [ID |-> id,
   IsUse |-> (change.Used # <<>> /\ change.Used[1]),
   IsRevoke |-> (change.Revoked # <<>> /\ change.Revoked[1])]

\* Datastore.UpdateTokens: DeleteMulti when both values are false, PutMulti
\* otherwise
DatastoreUpdateTokens(store, change) ==
  IF IsEmpty(change) THEN [err |-> "nil", db |-> store]
  ELSE LET keys == DatastoreUpdateKeys(store, change) IN
       IF ~DatastoreUpdateUse(change, "").IsRevoke /\ ~DatastoreUpdateUse(change, "").IsUse
       THEN [err |-> "nil",
             db |-> [store EXCEPT !.RefreshTokenUse = {u \in @ : u.ID \notin keys}]]
       ELSE [err |-> "nil",
             db |-> [store EXCEPT !.RefreshTokenUse =
                       {u \in @ : u.ID \notin keys}
                       \cup {DatastoreUpdateUse(change, id) : id \in keys}]]

\* Datastore.UseToken: NewInsert fails with AlreadyExists when the ID has a
\* RefreshTokenUse entity
DatastoreUseToken(store, id) ==
  IF ~\E t \in store.RefreshToken : t.ID = id
  THEN [err |-> ErrTokenNotFound, db |-> store]
  ELSE IF \E u \in store.RefreshTokenUse : u.ID = id
  THEN [err |-> ErrTokenUsed, db |-> store]
  ELSE [err |-> "nil",
        db |-> DatastorePutUse(store, [ID |-> id, IsUse |-> TRUE, IsRevoke |-> FALSE])]

\* the records, IDs and changes of the calls; a change carries at most one
\* filter field, so no key is written twice by one PutMulti
DatastoreIDs == {"a", "b"}
DatastoreTokens ==
  {t \in TokenInputs : t.ID \in DatastoreIDs /\ t.ClientID = "c1" /\ t.AccountID = "a1"}
DatastoreChanges ==
  {c \in RefreshTokenChange : /\ c.ID \in {"", "a"}
                              /\ c.ClientID = "" /\ c.AccountID = ""
                              /\ (c.ID = "" \/ c.ProfileID = "")}

\* a process built with a Datastore on an empty namespace
InitDatastore ==
  /\ backend = "datastore"
  /\ db = [RefreshToken |-> {}, RefreshTokenUse |-> {}]
  /\ last = [NoOp EXCEPT !.pre = [RefreshToken |-> {}, RefreshTokenUse |-> {}]]
  /\ calls = IdleCalls
  /\ lock = 0
  /\ txn = {}
  /\ target = ""
  /\ pager = IdlePager

\* Datastore.CreateToken(token)
DatastoreDoCreateToken ==
  \E token \in DatastoreTokens :
    LET res == DatastoreCreateToken(db, token) IN
    /\ Cardinality(res.db.RefreshToken) <= MaxTokens
    /\ db' = res.db
    /\ last' = [NoOp EXCEPT !.op = "CreateToken", !.token = token,
                            !.err = res.err, !.pre = db]
    /\ UNCHANGED <<backend, calls, lock, txn, target, pager>>

\* Datastore.GetToken(id)
DatastoreDoGetToken ==
  \E id \in DatastoreIDs :
    LET res == DatastoreGetToken(db, id) IN
    /\ last' = [NoOp EXCEPT !.op = "GetToken", !.id = id, !.err = res.err,
                            !.tok = res.tok, !.pre = db]
    /\ UNCHANGED <<backend, db, calls, lock, txn, target, pager>>

\* Datastore.UpdateTokens(change)
DatastoreDoUpdateTokens ==
  \E change \in DatastoreChanges :
    LET res == DatastoreUpdateTokens(db, change) IN
    /\ db' = res.db
    /\ last' = [NoOp EXCEPT !.op = "UpdateTokens", !.change = change,
                            !.err = res.err, !.pre = db]
    /\ UNCHANGED <<backend, calls, lock, txn, target, pager>>

\* Datastore.UseToken(id)
DatastoreDoUseToken ==
  \E id \in DatastoreIDs :
    LET res == DatastoreUseToken(db, id) IN
    /\ db' = res.db
    /\ last' = [NoOp EXCEPT !.op = "UseToken", !.id = id, !.err = res.err,
                            !.pre = db]
    /\ UNCHANGED <<backend, calls, lock, txn, target, pager>>

NextDatastore ==
  \/ DatastoreDoCreateToken
  \/ DatastoreDoGetToken
  \/ DatastoreDoUpdateTokens
  \/ DatastoreDoUseToken

SpecDatastore == InitDatastore /\ [][NextDatastore]_vars

(***************************************************************************)
(* Properties of the operations, stated on the last completed operation.   *)
(***************************************************************************)
\* the records before and after the last operation, as GetToken returns them
Pre == Stored(backend, last.pre)
Post == Stored(backend, db)

\* whether two IDs are the same key of the store: the memory table's index
\* on ID is lowercased, the primary key of the tokens table is not
SameID(b, x, y) == IF b = "memory" THEN Lower(x) = Lower(y) ELSE x = y

\* the records of a set that the store keeps under id
WithID(records, id) == {r \in records : SameID(backend, r.ID, id)}

\* a record matches every non-empty filter field of the change
Matches(r, change) ==
  /\ (change.ID = "" \/ r.ID = change.ID)
  /\ (change.ProfileID = "" \/ r.ProfileID = change.ProfileID)
  /\ (change.ClientID = "" \/ r.ClientID = change.ClientID)
  /\ (change.AccountID = "" \/ r.AccountID = change.AccountID)

\* the number of non-empty filter fields of the change
FilterCount(change) ==
  Cardinality({f \in IndexedFields : change[f] # ""})

\* C5: UseToken called alone returns ErrTokenNotFound when the store holds no
\* record under the ID, ErrTokenUsed when the record is already used, and
\* otherwise succeeds and leaves the record used; an error changes nothing.
C5_UseTokenOutcomes ==
  last.op = "UseToken" =>
    IF WithID(Pre, last.id) = {}
    THEN last.err = ErrTokenNotFound /\ db = last.pre
    ELSE IF \E r \in WithID(Pre, last.id) : r.Used
    THEN last.err = ErrTokenUsed /\ db = last.pre
    ELSE /\ last.err = "nil"
         /\ WithID(Post, last.id) # {}
         /\ \A r \in WithID(Post, last.id) : r.Used

\* a UseToken on an already used record returned ErrTokenUsed while the store
\* held another record as well
C5_Witness ==
  /\ last.op = "UseToken"
  /\ last.err = ErrTokenUsed
  /\ \E r \in Pre : r.ID = last.id /\ r.Used
  /\ \E r \in Pre : r.ID # last.id

\* C6: an UpdateTokens with a mutation and at least one filter field returns
\* success, turns every record that matches all non-empty filter fields into
\* ApplyChange(record, change) and leaves every other record as it was.
C6_FilterConjunction ==
  (last.op = "UpdateTokens" /\ ~IsEmpty(last.change) /\ HasFilter(last.change)) =>
    /\ last.err = "nil"
    /\ Post = {IF Matches(r, last.change) THEN ApplyChange(r, last.change) ELSE r :
                 r \in Pre}

\* an update with two filter fields that changed a record matching both and
\* skipped a record matching only one of them
C6_Witness ==
  /\ last.op = "UpdateTokens"
  /\ last.err = "nil"
  /\ FilterCount(last.change) >= 2
  /\ \E r \in Pre : Matches(r, last.change) /\ ApplyChange(r, last.change) # r
                     /\ ApplyChange(r, last.change) \in Post
  /\ \E r \in Pre : /\ ~Matches(r, last.change)
                    /\ \E f \in {"ProfileID", "ClientID", "AccountID"} : r[f] = last.change[f]
                    /\ ApplyChange(r, last.change) # r
                    /\ r \in Post

\* C7: an UpdateTokens with a mutation and no filter field returns
\* ErrNoTokenChangeFilter and changes no record.
C7_UnfilteredRejected ==
  (last.op = "UpdateTokens" /\ ~IsEmpty(last.change) /\ ~HasFilter(last.change)) =>
    last.err = ErrNoTokenChangeFilter /\ db = last.pre

\* an unfiltered update was rejected while the store held a record the
\* mutation would have changed
C7_Witness ==
  /\ last.op = "UpdateTokens"
  /\ ~IsEmpty(last.change) /\ ~HasFilter(last.change)
  /\ last.err = ErrNoTokenChangeFilter
  /\ \E r \in Pre : ApplyChange(r, last.change) # r

\* C8: an UpdateTokens with both mutation fields nil returns success and
\* changes no record, whatever its filter fields, also with none.
C8_EmptyChangeNoOp ==
  (last.op = "UpdateTokens" /\ IsEmpty(last.change)) =>
    last.err = "nil" /\ db = last.pre

\* an empty change without any filter returned success on a store with records
C8_Witness ==
  /\ last.op = "UpdateTokens"
  /\ IsEmpty(last.change) /\ ~HasFilter(last.change)
  /\ last.err = "nil"
  /\ Pre # {}

\* C9: CreateToken of a record whose ID is already stored returns
\* ErrTokenAlreadyExists and leaves the stored record as it was.
C9_CreationExclusive ==
  (last.op = "CreateToken" /\ \E r \in Pre : r.ID = last.token.ID) =>
    last.err = ErrTokenAlreadyExists /\ db = last.pre

\* a second CreateToken on a stored ID, with other field values, was refused
C9_Witness ==
  /\ last.op = "CreateToken"
  /\ last.err = ErrTokenAlreadyExists
  /\ \E r \in Pre : /\ r.ID = last.token.ID
                    /\ r.ProfileID # last.token.ProfileID
                    /\ r.Used # last.token.Used
                    /\ r \in Post

ServiceOps == {"POST /", "GET /{id}", "PATCH /{id}", "POST /{id}", "Validate", "UseToken"}

\* the last Validate ran under the keys tokensd was started with and a
\* working database connection
StartedConfiguration == last.key = Dependencies(backend).JWTPublicKey /\ ~last.down

\* the instant lies between the envelope's not-before and its expires-at
InWindow(jwtVal, now) ==
  jwtVal.claims.NotBefore <= now /\ now <= jwtVal.claims.ExpiresAt

\* the stored records the presented envelope is the CreateJWT envelope of
MintedFor(jwtVal) ==
  {r \in Pre : jwtVal = CreateJWT(Dependencies(backend), r)}

\* C2: Validate of the envelope CreateJWT minted for a stored record that is
\* neither revoked nor used, presented inside its validity window, returns
\* that record and no error.
C2_ValidateRoundTrip ==
  (last.op = "Validate" /\ StartedConfiguration /\ InWindow(last.jwt, last.now)) =>
    \A r \in MintedFor(last.jwt) :
      (~r.Revoked /\ ~r.Used) => (last.err = "nil" /\ last.tok = r)

\* C3: Validate of a valid, freshly minted envelope returns ErrTokenRevoked
\* for a revoked record (used or not), ErrTokenUsed for a used record that is
\* not revoked, and in neither case the record.
C3_ValidateRevokedUsed ==
  (last.op = "Validate" /\ StartedConfiguration /\ InWindow(last.jwt, last.now)) =>
    \A r \in MintedFor(last.jwt) :
      /\ r.Revoked => (last.err = ErrTokenRevoked /\ last.tok = ZeroToken)
      /\ (r.Used /\ ~r.Revoked) => (last.err = ErrTokenUsed /\ last.tok = ZeroToken)

\* C4: no operation of the service surface turns a stored record's Used or
\* Revoked from true to false.
C4_MonotonicFlags ==
  last.op \in ServiceOps =>
    \A r \in Pre : \A u \in WithID(Post, r.ID) :
      (r.Used => u.Used) /\ (r.Revoked => u.Revoked)

(***************************************************************************)
(* Properties of the listing.                                              *)
(***************************************************************************)
\* the stored records of the listed profile, under the key equality of the
\* backend's index on ProfileID
OfProfile(profileID) == {r \in Post : SameID(backend, r.ProfileID, profileID)}

\* the record passes the time bounds as the contract words them
PassesBounds(r, since, before) ==
  /\ (since = 0 \/ r.CreatedAt > since)
  /\ (before = 0 \/ r.CreatedAt < before)

\* the records the last listing had to choose from
Candidates ==
  {r \in OfProfile(last.profile) : PassesBounds(r, last.since, last.before)}

\* the records the last listing returned
Listed == {last.page[i] : i \in 1..Len(last.page)}

\* C11: paging a profile of more than 25 records, from before = 0 and then
\* with before = the oldest CreatedAt of the previous page until a page is
\* empty, returns every record of the profile exactly once, whatever the
\* CreatedAt values of the records.
C11_PaginationComplete ==
  pager.state = "done" =>
    /\ Len(pager.seen) = Cardinality(OfProfile(pager.profile))
    /\ {pager.seen[i] : i \in 1..Len(pager.seen)} = {r.ID : r \in OfProfile(pager.profile)}

\* C12: a listing returns at most 25 records in descending order of
\* CreatedAt; when more than 25 records pass the profile and time filters it
\* returns 25 of them and no record it leaves out is newer than one it returns.
C12_ListingOrderAndBound ==
  last.op = "GetTokensByProfileID" =>
    /\ Len(last.page) <= NumTokenResults
    /\ \A i \in 1..Len(last.page) : \A j \in 1..Len(last.page) :
         i < j => last.page[i].CreatedAt >= last.page[j].CreatedAt
    /\ Cardinality(Listed) = Len(last.page)
    /\ Listed \subseteq Candidates
    /\ Cardinality(Candidates) > NumTokenResults =>
         /\ Len(last.page) = NumTokenResults
         /\ \A o \in Candidates \ Listed : \A r \in Listed : o.CreatedAt <= r.CreatedAt

\* a listing that had more than 25 records to choose from and left out a
\* record as old as the oldest it returned
C12_Witness ==
  /\ last.op = "GetTokensByProfileID"
  /\ Cardinality(Candidates) > NumTokenResults
  /\ Len(last.page) = NumTokenResults
  /\ \E o \in Candidates \ Listed :
       o.CreatedAt = last.page[NumTokenResults].CreatedAt

\* C13: a listing returns a record of the profile only if (since is zero or
\* CreatedAt > since) and (before is zero or CreatedAt < before), so a record
\* whose CreatedAt equals a bound is left out; a zero bound leaves nothing
\* out: when at most 25 records pass, the listing is exactly those records.
C13_StrictOptionalBounds ==
  last.op = "GetTokensByProfileID" =>
    /\ \A r \in Listed :
         /\ r \in OfProfile(last.profile)
         /\ (last.since = 0 \/ r.CreatedAt > last.since)
         /\ (last.before = 0 \/ r.CreatedAt < last.before)
    /\ Cardinality(Candidates) <= NumTokenResults => Listed = Candidates

\* a listing with both bounds set, on a profile with records at the lower
\* bound, between the bounds and at the upper bound, that returned only the
\* records between them
C13_Witness ==
  /\ last.op = "GetTokensByProfileID"
  /\ last.since # 0 /\ last.before # 0
  /\ \E r \in OfProfile(last.profile) : r.CreatedAt = last.since
  /\ \E r \in OfProfile(last.profile) : r.CreatedAt = last.before
  /\ Listed # {}
  /\ \A r \in Listed : last.since < r.CreatedAt /\ r.CreatedAt < last.before

(***************************************************************************)
(* Properties of Validate and of the envelope.                             *)
(***************************************************************************)
\* C14: no call of Validate, whatever it returns, changes a field of a
\* stored record: the table after the call is the table before it, and a
\* record that was not used is not used afterwards.
C14_ValidateNeverMutates ==
  last.op = "Validate" =>
    /\ db = last.pre
    /\ \A r \in Pre : ~r.Used => \A u \in WithID(Post, r.ID) : ~u.Used

\* a Validate, under the started configuration and inside the validity
\* window, of the envelope minted for a stored record that is neither revoked
\* nor used, after which the record is still unused
C14_Witness ==
  /\ last.op = "Validate"
  /\ StartedConfiguration
  /\ InWindow(last.jwt, last.now) /\ last.now >= last.jwt.claims.IssuedAt
  /\ \E r \in MintedFor(last.jwt) : ~r.Revoked /\ ~r.Used /\ r \in Post

\* the header of the presented envelope names an algorithm that is not RSA
BadAlgorithm == last.jwt.alg \notin RSAMethods

\* the header's key id is not the fingerprint of the configured public key
UnknownKey == last.jwt.kid # Fingerprint(last.key)

BadSignature == last.jwt.signedBy # last.key

\* the envelope is presented outside the window of its temporal claims
OutsideWindow == ~ClaimsValid(last.jwt.claims, last.now)

\* the envelope is well formed and valid, its identifier is not in the store
UnknownIdentifier ==
  /\ ~BadAlgorithm /\ ~UnknownKey /\ ~BadSignature /\ ~OutsideWindow
  /\ WithID(Pre, last.jwt.claims.Id) = {}

\* the envelope is well formed and valid and the Storer's query fails
StorageFailure ==
  /\ ~BadAlgorithm /\ ~UnknownKey /\ ~BadSignature /\ ~OutsideWindow
  /\ last.down

\* C16: Validate returns the one value ErrInvalidToken, and no record, for a
\* bad signature, a disallowed algorithm, an unknown key, an expired envelope
\* and a valid envelope whose identifier is not in the store, so the result
\* does not tell these causes apart; a storage error other than
\* ErrTokenNotFound is returned unchanged.
C16_CauseNotRevealed ==
  last.op = "Validate" =>
    /\ (~last.down /\ (BadAlgorithm \/ UnknownKey \/ BadSignature \/ OutsideWindow
                       \/ UnknownIdentifier))
         => (last.err = ErrInvalidToken /\ last.tok = ZeroToken)
    /\ StorageFailure => last.err = "error"

Accepted == last.op \in {"CreateToken", "POST /"} /\ last.err = "nil"

\* the creation request as the caller made it
Request == IF last.op = "POST /" THEN last.body ELSE last.token

\* the record the last creation stored
Entered == WithID(Post, last.token.ID)

\* C18 as claimed: every record is in state (Revoked = false, Used = false)
\* when it enters the store, for every creation request that CreateToken or
\* the POST / handler accepts.
C18_InitialState ==
  Accepted => \A r \in Entered : ~r.Revoked /\ ~r.Used

\* C18 as amended: every record enters the store with the Revoked and Used
\* values of its creation request, (false, false) when the request sets
\* neither, for every creation request that CreateToken or the POST /
\* handler accepts.
C18_InitialStateAsRequested ==
  Accepted =>
    /\ Entered # {}
    /\ \A r \in Entered : r.Revoked = Request.Revoked /\ r.Used = Request.Used

\* a POST / that asked for a revoked, used record was accepted and the
\* record entered the store revoked and used
C18_Witness ==
  /\ Accepted /\ last.op = "POST /"
  /\ Request.Revoked /\ Request.Used
  /\ \E r \in Entered : r.Revoked /\ r.Used

\* the request leaves a required field at its zero value
Lacking(req) ==
  req.CreatedAt = 0 \/ req.CreatedFrom = "" \/ req.ProfileID = "" \/ req.ClientID = ""

\* C19: every stored record has a non-zero CreatedAt and a non-empty
\* CreatedFrom, ProfileID and ClientID, and a creation request that lacks one
\* of them is rejected and stores nothing.
C19_RequiredFields ==
  /\ \A r \in Post : ~Lacking(r)
  /\ (last.op \in {"CreateToken", "POST /"} /\ Lacking(Request)) =>
       (last.err # "nil" /\ db = last.pre)

\* C20: no operation removes a record: every record that GetToken returned
\* before the operation is still returned by GetToken for its ID after it.
C20_NeverDeleted ==
  last.op # "" =>
    \A r \in Pre : GetToken(backend, db, r.ID).err = "nil"

\* an UpdateTokens that changed one of two stored records, both of which
\* GetToken still returns
C20_Witness ==
  /\ last.op = "UpdateTokens"
  /\ last.err = "nil"
  /\ Cardinality(Pre) >= 2
  /\ \E r \in Pre : r \notin Post
  /\ \E r \in Pre : r \in Post
  /\ \A r \in Pre : GetToken(backend, db, r.ID).err = "nil"

(***************************************************************************)
(* Properties of concurrent calls on one record.                           *)
(***************************************************************************)
\* the goroutines that make the call op
Making(op) == {p \in Callers : calls[p].op = op}

\* the goroutines that call UpdateTokens with the change
Updating(change) == {p \in Making("UpdateTokens") : calls[p].change = change}

\* the goroutines whose call has returned success
Succeeded == {p \in Callers : calls[p].pc = "done" /\ calls[p].err = "nil"}

\* the record the calls are about, as GetToken returns it now
Targeted == {r \in Stored(backend, db) : r.ID = target}

\* the records as they were created, before any of the calls
Created == Stored(backend, last.pre) \cup {last.token}

\* UpdateTokens{ID: id, Revoked: true}
Revocation == [ZeroChange EXCEPT !.ID = target, !.Revoked = <<TRUE>>]

\* one UseToken and one UpdateTokens{ID: id, Revoked: true} are the only
\* writers, on a record created (Revoked = false, Used = false)
UseAgainstRevocation ==
  /\ ~last.token.Revoked /\ ~last.token.Used
  /\ Cardinality(Making("UseToken")) = 1
  /\ Cardinality(Updating(Revocation)) = 1
  /\ Making("UpdateTokens") = Updating(Revocation)

\* C21: when UseToken(id) and UpdateTokens{ID: id, Revoked: true} run
\* concurrently on a record in state (false, false), then under every
\* interleaving the record is used from the return of a successful UseToken
\* on and revoked from the return of the UpdateTokens on, so that it ends
\* (Revoked = true, Used = true): neither call writes back the old value of
\* the other's flag.
C21_NoLostUpdate ==
  UseAgainstRevocation =>
    /\ \A p \in Making("UseToken") \cap Succeeded : \A r \in Targeted : r.Used
    /\ \A p \in Updating(Revocation) \cap Succeeded : \A r \in Targeted : r.Revoked
    /\ Targeted # {}

\* both calls have returned success and the record is revoked and used
C21_Witness ==
  /\ UseAgainstRevocation
  /\ Making("UseToken") \subseteq Succeeded
  /\ Updating(Revocation) \subseteq Succeeded
  /\ \E r \in Targeted : r.Revoked /\ r.Used

\* the changes that carry both Revoked and Used
Sweeps == {calls[p].change : p \in {q \in Making("UpdateTokens") :
                                      calls[q].change.Revoked # <<>>
                                      /\ calls[q].change.Used # <<>>}}

\* the only writer is one UpdateTokens, and its change carries both flags
LoneSweep ==
  /\ Making("UseToken") = {}
  /\ Cardinality(Making("UpdateTokens")) = 1
  /\ Cardinality(Sweeps) = 1

\* the states a reader may see a record in while the change is applied:
\* as it was created or with the whole change applied
Whole(change) == Created \cup {ApplyChange(r, change) : r \in Created}

\* C22: while one UpdateTokens applies a change that carries both Revoked and
\* Used, every record a concurrent GetToken or GetTokensByProfileID returns
\* is either as it was before the update or has both mutations applied; no
\* reader gets a record with one of the two applied and the other not.
C22_UpdateAtomicPerRecord ==
  LoneSweep =>
    \A change \in Sweeps :
      /\ \A p \in Making("GetToken") :
           (calls[p].pc = "done" /\ calls[p].err = "nil") => calls[p].found \in Whole(change)
      /\ \A p \in Making("GetTokensByProfileID") :
           \A i \in 1..Len(calls[p].page) : calls[p].page[i] \in Whole(change)

\* in the memory backend a listing returned the record as it was created
\* while the write transaction of the update held it with both flags set
C22_Witness ==
  /\ LoneSweep
  /\ ~last.token.Revoked /\ ~last.token.Used
  /\ \E u \in Making("UpdateTokens") :
       /\ calls[u].pc = "next"
       /\ \E r \in txn : r.ID = target /\ r.Revoked /\ r.Used
  /\ \E p \in Making("GetTokensByProfileID") :
       /\ calls[p].pc = "done"
       /\ \E i \in 1..Len(calls[p].page) : calls[p].page[i] = last.token

(***************************************************************************)
(* Properties of reads after writes.                                       *)
(***************************************************************************)
\* the last operation was a write of the Storer and it returned success
WriteReturned ==
  last.op \in {"CreateToken", "UpdateTokens", "UseToken"} /\ last.err = "nil"

\* the stored records the last write was about
Written ==
  CASE last.op = "CreateToken" -> {r \in Post : r.ID = last.token.ID}
    [] last.op = "UseToken" -> WithID(Post, last.id)
    [] last.op = "UpdateTokens" -> {r \in Post : Matches(r, last.change)}
    [] OTHER -> {}

\* the record shows the effect of the last write
ShowsWrite(r) ==
  CASE last.op = "CreateToken" -> r = last.token
    [] last.op = "UseToken" -> r.Used
    [] last.op = "UpdateTokens" ->
         /\ (last.change.Revoked # <<>> => r.Revoked = last.change.Revoked[1])
         /\ (last.change.Used # <<>> => r.Used = last.change.Used[1])
    [] OTHER -> TRUE

\* what Validate is to answer for a valid envelope of the record
Verdict(r) ==
  IF r.Revoked THEN ErrTokenRevoked ELSE IF r.Used THEN ErrTokenUsed ELSE "nil"

\* GetToken and GetTokensByProfileID, started now, return the record
StorerReads(r) ==
  /\ GetToken(backend, db, r.ID).err = "nil"
  /\ GetToken(backend, db, r.ID).tok = r
  /\ \A page \in GetTokensByProfileID(backend, db, r.ProfileID, 0, 0) :
       \E i \in 1..Len(page) : page[i] = r

\* Validate, started now with the record's envelope at the record's
\* CreatedAt, answers for the record as it is stored
ValidateReads(r) ==
  LET d == Dependencies(backend)
      res == Validate(d, db, CreateJWT(d, r), r.CreatedAt) IN
  /\ res.err = Verdict(r)
  /\ res.err = "nil" => res.tok = r

\* C23: every GetToken, GetTokensByProfileID and Validate call that starts
\* after a CreateToken, UpdateTokens or UseToken has returned success
\* observes that write: the record the write was about shows its effect,
\* GetToken and the listing return it so, and Validate answers for it so.
C23_ReadYourWrites ==
  WriteReturned =>
    \A r \in Written : ShowsWrite(r) /\ StorerReads(r) /\ ValidateReads(r)

(***************************************************************************)
(* Properties of cancellation.                                             *)
(***************************************************************************)
\* the calls of the Storer interface
StorerOps == {"CreateToken", "UpdateTokens", "UseToken", "GetToken", "GetTokensByProfileID"}

\* C24: a CreateToken, UpdateTokens, UseToken, GetToken or
\* GetTokensByProfileID call whose context was cancelled before or during
\* the call returns an error and leaves the table as it was.
C24_CancellationAborts ==
  (last.op \in StorerOps /\ last.ctx # "live") =>
    (last.err # "nil" /\ db = last.pre)

(***************************************************************************)
(* Properties of ApplyChange.                                              *)
(***************************************************************************)
\* the fields of a record that no change carries
FrameFields ==
  {"ID", "CreatedAt", "CreatedFrom", "Scopes", "ProfileID", "ClientID", "AccountID"}

\* C25: ApplyChange(t, c) with both mutation fields absent is t; applying c
\* to ApplyChange(t, c) gives ApplyChange(t, c) again; Revoked (Used) of the
\* result is c's value when c carries one and t's value otherwise, and every
\* other field of the result is t's.
C25_PatchLaws ==
  /\ last.op = "ApplyChange" =>
       /\ IsEmpty(last.change) => last.tok = last.token
       /\ last.tok.Revoked = IF last.change.Revoked = <<>> THEN last.token.Revoked
                             ELSE last.change.Revoked[1]
       /\ last.tok.Used = IF last.change.Used = <<>> THEN last.token.Used
                          ELSE last.change.Used[1]
       /\ \A f \in FrameFields : last.tok[f] = last.token[f]
  /\ last.op = "ApplyChange again" => last.pre = {last.tok}

\* a change that clears Revoked and sets Used on a revoked, unused record,
\* applied twice: the second application changed nothing
C25_Witness ==
  /\ last.op = "ApplyChange again"
  /\ last.change.Revoked = <<FALSE>> /\ last.change.Used = <<TRUE>>
  /\ last.token.Revoked /\ ~last.token.Used
  /\ ~last.tok.Revoked /\ last.tok.Used
  /\ last.pre = {last.tok}

(***************************************************************************)
(* Properties of the reads.                                                *)
(***************************************************************************)
\* C26: GetToken(id) returns ErrTokenNotFound, and then the zero record,
\* exactly when the store holds no record under the ID; neither GetToken nor
\* GetTokensByProfileID changes the table.
C26_GetTokenNotFound ==
  /\ last.op = "GetToken" =>
       /\ last.err = ErrTokenNotFound <=> WithID(Pre, last.id) = {}
       /\ last.err = ErrTokenNotFound => last.tok = ZeroToken
       /\ last.err \in {"nil", ErrTokenNotFound}
       /\ db = last.pre
  /\ last.op = "GetTokensByProfileID" => db = last.pre

\* a GetToken of an ID that is not stored returned ErrTokenNotFound while
\* the store held two other records, which it still holds
C26_Witness ==
  /\ last.op = "GetToken"
  /\ last.err = ErrTokenNotFound
  /\ WithID(Pre, last.id) = {}
  /\ Cardinality(Pre) = 2
  /\ Post = Pre

(***************************************************************************)
(* Properties of POST /{id}.                                               *)
(***************************************************************************)
\* the stored, unrevoked, unused records whose CreateJWT envelope the
\* request presents inside its validity window
PresentedValid ==
  {r \in MintedFor(last.jwt) :
     ~r.Revoked /\ ~r.Used /\ ClaimsValid(last.jwt.claims, last.now)}

\* C27: POST /{id} answers 200 with the record only when Validate succeeds
\* and the validated record's ID is the {id} of the URL; a valid envelope
\* for a different ID is answered 400 invalid_value on {id};
\* ErrInvalidToken is answered 400 invalid_value, ErrTokenRevoked and
\* ErrTokenUsed 400 conflict, any other error 500; the handler never changes
\* the table.
C27_PostOutcomeMapping ==
  (last.op = "POST /{id}" /\ last.id # "") =>
    LET v == Validate(Dependencies(backend), last.pre, last.jwt, last.now) IN
    /\ last.status = 200 =>
         (v.err = "nil" /\ v.tok.ID = last.id /\ last.tok = apiToken(v.tok))
    /\ \A r \in PresentedValid :
         r.ID # last.id =>
           (last.status = 400 /\ last.slug = "invalid_value" /\ last.param = "{id}")
    /\ v.err = ErrInvalidToken => (last.status = 400 /\ last.slug = "invalid_value")
    /\ v.err \in {ErrTokenRevoked, ErrTokenUsed} =>
         (last.status = 400 /\ last.slug = "conflict")
    /\ v.err \notin {"nil", ErrInvalidToken, ErrTokenRevoked, ErrTokenUsed} =>
         last.status = 500
    /\ db = last.pre

(***************************************************************************)
(* Properties of UseToken among concurrent calls.                          *)
(***************************************************************************)
\* the call of goroutine p returns in this step, with err
Returns(p, err) ==
  calls[p].pc # "done" /\ calls'[p].pc = "done" /\ calls'[p].err = err

\* the record is used in the committed table
TargetUsed(table) == \E r \in table : r.ID = target /\ r.Used

\* C28: in the relational backend, on a record that exists throughout, a
\* UseToken call interleaved with concurrent UpdateTokens and UseToken calls
\* on the record returns success or ErrTokenUsed, never ErrTokenNotFound, and
\* it returns ErrTokenUsed only at a moment when the record has Used = true.
C28_UseTokenClassification ==
  /\ [](backend = "postgres" =>
          \A p \in Making("UseToken") :
            calls[p].pc = "done" => calls[p].err \in {"nil", ErrTokenUsed})
  /\ [][backend = "postgres" =>
          \A p \in Making("UseToken") :
            Returns(p, ErrTokenUsed) => TargetUsed(db)]_vars

\* no UpdateTokens call of the history carries Used = false
NoReset == \A p \in Making("UpdateTokens") : calls[p].change.Used # <<FALSE>>

\* the UseToken calls that have returned success
Redeemed == Making("UseToken") \cap Succeeded

\* C29: in a history in which no UpdateTokens carries Used = false, at most
\* one UseToken call on the record ever returns success, whether the calls
\* follow each other or run concurrently; none does on a record created with
\* Used = true; a call returns success only in the step that turns the
\* record from unused to used, and a used record stays used, so none returns
\* success after an UpdateTokens has marked the record used.
C29_SingleRedemption ==
  /\ [](NoReset => /\ Cardinality(Redeemed) <= 1
                   /\ last.token.Used => Redeemed = {})
  /\ [][NoReset => /\ \A p \in Making("UseToken") :
                        Returns(p, "nil") => (~TargetUsed(db) /\ TargetUsed(db'))
                   /\ TargetUsed(db) => TargetUsed(db')]_vars

\* a record created unused was marked used by UpdateTokens{Used: true} and
\* each of two UseToken calls returned ErrTokenUsed
C29_Witness ==
  /\ NoReset
  /\ ~last.token.Used
  /\ Cardinality(Making("UseToken")) >= 2
  /\ \A p \in Making("UseToken") : calls[p].pc = "done" /\ calls[p].err = ErrTokenUsed
  /\ \E q \in Making("UpdateTokens") \cap Succeeded : calls[q].change.Used = <<TRUE>>

(***************************************************************************)
(* Properties of the mutators' frame.                                      *)
(***************************************************************************)
\* the two records agree on every field that no change carries
SameFrame(r, u) == \A f \in FrameFields : u[f] = r[f]

\* C30: UpdateTokens and UseToken change only Revoked and Used: across every
\* operation each stored record keeps its ID, CreatedAt, CreatedFrom,
\* Scopes, ProfileID, ClientID and AccountID, so after any sequence of
\* operations it has the values it was created with; the mutators neither
\* add nor remove a record, and a successful UseToken(id) leaves every
\* record other than the one stored under id exactly as it was.
C30_MutatorFrame ==
  /\ last.op # "" => \A r \in Pre : \E u \in Post : SameFrame(r, u)
  /\ last.op \in {"UpdateTokens", "UseToken"} =>
       /\ Cardinality(Post) = Cardinality(Pre)
       /\ \A u \in Post : \E r \in Pre : SameFrame(r, u)
  /\ (last.op = "UseToken" /\ last.err = "nil") =>
       \A r \in Pre : ~SameID(backend, r.ID, last.id) => r \in Post

\* a UseToken that marked one of two unused records used and left the other
\* one, of the same profile, client and account, unused
C30_Witness ==
  /\ last.op = "UseToken"
  /\ last.err = "nil"
  /\ \E r \in Pre : \E o \in Pre :
       /\ r.ID = last.id /\ o.ID # last.id
       /\ ~r.Used /\ ~o.Used
       /\ o.ProfileID = r.ProfileID /\ o.ClientID = r.ClientID
       /\ o.AccountID = r.AccountID
       /\ o \in Post
       /\ [r EXCEPT !.Used = TRUE] \in Post

(***************************************************************************)
(* Properties of PATCH /{id}.                                              *)
(***************************************************************************)
\* C31: when PATCH /{id} answers 200, the record in the response is the
\* record stored under {id} as the handler's UpdateTokens call left it,
\* whatever filter fields the body carries.
C31_PatchReflectsStore ==
  (last.op = "PATCH /{id}" /\ last.status = 200) =>
    \E r \in WithID(Post, last.id) : last.tok = apiToken(r)

C33_UseTokenIgnoresRevocation ==
  last.op = "UseToken" =>
    /\ last.err = (IF WithID(Pre, last.id) = {} THEN ErrTokenNotFound
                   ELSE IF \A r \in WithID(Pre, last.id) : r.Used THEN ErrTokenUsed
                   ELSE "nil")
    /\ \A r \in WithID(Pre, last.id) : ~r.Used => [r EXCEPT !.Used = TRUE] \in Post
    /\ \A r \in Pre : \E u \in Post : u.ID = r.ID /\ u.Revoked = r.Revoked
    /\ \A u \in Post : \E r \in Pre : u.ID = r.ID /\ u.Revoked = r.Revoked

\* UseToken succeeded on a revoked, unused record, which is now used and
\* still revoked
C33_Witness ==
  /\ last.op = "UseToken"
  /\ last.err = "nil"
  /\ \E r \in WithID(Pre, last.id) :
       /\ r.Revoked /\ ~r.Used
       /\ [r EXCEPT !.Used = TRUE] \in Post

(***************************************************************************)
(* Properties of a sweep over a profile in the memory backend.             *)
(***************************************************************************)
\* the records a listing returned
PageOf(p) == {calls[p].page[i] : i \in 1..Len(calls[p].page)}

\* the records of the profile with the change applied to each
Swept(change) == {ApplyChange(r, change) : r \in Created}

\* C34: in the memory backend, while one UpdateTokens{ProfileID: p, ...}
\* runs as the only writer, a concurrent GetTokensByProfileID(p, 0, 0)
\* returns the records of the profile either all as they were or all with
\* the change applied, never some with it and others without; and when the
\* sweep returns an error, the store holds every record as it was.
C34_SweepAtomic ==
  (backend = "memory" /\ LoneSweep) =>
    \A change \in Sweeps :
      /\ \A p \in Making("GetTokensByProfileID") :
           calls[p].pc = "done" => PageOf(p) \in {Created, Swept(change)}
      /\ \A u \in Making("UpdateTokens") :
           (calls[u].pc = "done" /\ calls[u].err # "nil") =>
             Stored(backend, db) = Created

\* a listing returned both records of the profile as they were created
\* while the sweep's write transaction held one of them changed and the
\* other not yet
C34_Witness ==
  /\ backend = "memory"
  /\ LoneSweep
  /\ \E change \in Sweeps :
       /\ change.ProfileID = last.token.ProfileID
       /\ \E u \in Making("UpdateTokens") : calls[u].pc = "next"
       /\ \E r \in Created : r \in txn /\ ApplyChange(r, change) # r
       /\ \E r \in Created : r \notin txn /\ ApplyChange(r, change) \in txn
       /\ \E p \in Making("GetTokensByProfileID") :
            calls[p].pc = "done" /\ PageOf(p) = Created /\ Cardinality(Created) = 2

(***************************************************************************)
(* Properties of the match on ProfileID.                                   *)
(***************************************************************************)
\* C35: for every profile ID, spelled as stored or differing from a stored
\* ProfileID by letter case only, GetTokensByProfileID(p, 0, 0) returns
\* exactly the stored records whose ProfileID equals p, and these are the
\* records UpdateTokens{ProfileID: p, Revoked: true} applies to: the
\* unrevoked ones among them are the records that call changes.
C35_ProfileMatchSets ==
  (last.op = "GetTokensByProfileID" /\ last.since = 0 /\ last.before = 0) =>
    LET sweep == [ZeroChange EXCEPT !.ProfileID = last.profile, !.Revoked = <<TRUE>>]
        after == Stored(backend, UpdateTokens(backend, db, sweep).db)
        equal == {r \in Post : r.ProfileID = last.profile}
    IN /\ Listed = equal
       /\ {r \in Post : r \notin after} = {r \in equal : ~r.Revoked}

(***************************************************************************)
(* Properties of the earlier stores.                                       *)
(***************************************************************************)
\* the record matches the filter field of the change, letter case aside
MatchesField(r, change, f) == change[f] = "" \/ Lower(r[f]) = Lower(change[f])

\* C36: in storers.Memstore, an UpdateTokens whose change carries more than
\* one of ID, ProfileID and ClientID updates a record only if the record
\* matches every one of the filter fields the change carries.
C36_MemstoreConjunction ==
  (backend = "memstore" /\ last.op = "UpdateTokens") =>
    \A r \in last.pre :
      r \notin db =>
        \A f \in {"ID", "ProfileID", "ClientID"} : MatchesField(r, last.change, f)

\* the last call was UpdateTokens{ID: id, Revoked: true} on an unused record
RevokedUnused(id) ==
  /\ last.op = "UpdateTokens"
  /\ last.change = [ZeroChange EXCEPT !.ID = id, !.Revoked = <<TRUE>>]
  /\ DatastoreGetToken(last.pre, id).err = "nil"
  /\ ~DatastoreGetToken(last.pre, id).tok.Used

\* C37: in the Datastore backend, an UpdateTokens that carries only one of
\* Revoked and Used leaves the other flag of every record as it was, as
\* GetToken reads it back; and a UseToken(id) that follows
\* UpdateTokens{ID: id, Revoked: true} on an unused record succeeds, and a
\* second UseToken(id) after it returns ErrTokenUsed.
C37_DatastoreTriState ==
  /\ []((backend = "datastore" /\ last.op = "UpdateTokens" /\ last.err = "nil") =>
          \A id \in DatastoreIDs :
            DatastoreGetToken(last.pre, id).err = "nil" =>
              /\ last.change.Revoked = <<>> =>
                   DatastoreGetToken(db, id).tok.Revoked
                     = DatastoreGetToken(last.pre, id).tok.Revoked
              /\ last.change.Used = <<>> =>
                   DatastoreGetToken(db, id).tok.Used
                     = DatastoreGetToken(last.pre, id).tok.Used)
  /\ [][backend = "datastore" =>
          \A id \in DatastoreIDs :
            (last'.op = "UseToken" /\ last'.id = id) =>
              /\ RevokedUnused(id) => last'.err = "nil"
              /\ (last.op = "UseToken" /\ last.id = id /\ last.err = "nil") =>
                   last'.err = ErrTokenUsed]_vars

====
